---- MODULE Spec2Model ----
(***************************************************************************)
(* A model of the AssppWeb standalone backend: the download task engine    *)
(* (download_manager.rs), the shared application state (state.rs) and the  *)
(* HTTP handlers of the downloads and packages routes.                     *)
(*                                                                         *)
(* Every tokio task (a download worker, a request handler) is a process    *)
(* whose steps are the stretches of code between two await points on a     *)
(* shared lock or on I/O.  One action is one such stretch.                 *)
(***************************************************************************)
EXTENDS Integers, Sequences, FiniteSets, TLC

\* ------------------------------------------------------------------ bounds
\* Workers spawned in one run (by create_task and resume_task together).
MaxWorkers == 2
\* Chunks in the body of one upstream response.
MaxChunks == 2
\* Tasks created in one run; task 0 is the one tasks.json may hold at startup.
MaxCreates == 1

\* CONNECT frames one tunnel receives, the stream ids they may name, the client
\* frames of one tunnel, and the chunks one TCP connection delivers.
MaxConnects == 2
MaxStreams == 1
MaxFrames == 4
MaxReads == 1
\* The payloads the forward queue of one TCP flow holds (128 at wisp.rs line 79).
QueueCap == 1
MaxSubs == 2
MaxEntries == 3
MaxSinfs == 2

Ids == 0 .. MaxCreates
Workers == 1 .. MaxWorkers

\* ------------------------------------------------------------ program data
OwnerHash == "AAAAAAAA"
OtherHash == "BBBBBBBB"
ShortHash == "AAAAAAA"
Hashes == {ShortHash, OwnerHash, OtherHash}
ValidUrl == "https://example.com/app.ipa"

\* The bytes of a file: chunk i of the response worker w receives is Chunk(w, i);
\* Chunk(0, 1) is a file that was on disk at startup.
Chunk(w, i) == <<w, i>>
Response(w) == [i \in 1 .. MaxChunks |-> Chunk(w, i)]

NoTask == [status |-> "none"]
NoFile == [ino |-> 0, data |-> <<>>]
NoResp == [kind |-> "none"]

VARIABLES
  tasks,          \* AppState.tasks: id -> DownloadTask (NoTask: no entry)
  abort_handles,  \* AppState.abort_handles: id -> the worker holding the receiver (0: no entry)
  progress_tx,    \* AppState.progress_tx: id -> the channel (0: no entry)
  workers,        \* the spawned start_download tasks
  nspawned,       \* how many workers were spawned
  ncreated,       \* how many tasks were created
  files,          \* the staged file at each task's file path
  dirs,           \* whether each task's staging directory exists
  tasksJson,      \* the bytes of tasks.json
  pz,             \* the pause_download request in flight
  rs,             \* the resume_download request in flight
  dl,             \* the delete_download request in flight
  sub,            \* the progress_stream subscribers
  resp,           \* the last HTTP response or server-sent event
  hist            \* history: pause_task returned true for the id, and no resume_task
                  \* returned true, no fail_task and no delete_task ran since

\* The Wisp tunnel of one WebSocket connection (routes/wisp.rs, wisp_proxy.rs).
VARIABLES
  server,         \* which server runs the tunnel: "standalone" or "worker"
  ws_out,         \* the frames sent to the client so far, in order
  streams,        \* the stream map: stream id -> the CONNECT whose TCP entry it holds (0: none)
  conns,          \* the CONNECT frames received: their TCP connection and relay tasks
  wisp            \* the WebSocket and the counters of the tunnel

\* The archive rewrite of one injection (services/sinf_injector.rs).
VARIABLES
  zip             \* the IPA, the temporary archive and the position of inject_sync

\* The data directory across restarts (state.rs).
VARIABLES
  pw,             \* the persist_tasks calls in flight: caller -> position and serialised array
  boot,           \* the restarts so far, and the tasks whose staged path is outside the packages root
  sweep,          \* the packages tree and the position of walk_and_clean in it
  config          \* the environment, the Config made from it and the paths asked of it

wispVars == <<server, ws_out, streams, conns, wisp>>
zipVars == <<zip>>
diskVars == <<pw, boot, sweep, config>>
taskVars == <<tasks, abort_handles, progress_tx, workers, nspawned, ncreated, files,
              dirs, tasksJson, pz, rs, dl, sub, resp, hist>>
vars == <<tasks, abort_handles, progress_tx, workers, nspawned, ncreated, files,
          dirs, tasksJson, pz, rs, dl, sub, resp, hist, wispVars, zipVars, diskVars>>

\* ------------------------------------------------------------- task record
\* asspp_core::download::new_task: the record create_task inserts.
new_task(id, req) ==
  [id |-> id, status |-> "Queued", progress |-> 0, error |-> "None",
   file_path |-> "None", account_hash |-> req.account_hash,
   download_url |-> req.download_url, sinfs |-> req.sinfs,
   itunes_metadata |-> req.itunes_metadata]

\* The create requests that pass validate_download_url and validate_create_request.
CreateRequests ==
  { [account_hash |-> OwnerHash, download_url |-> ValidUrl, sinfs |-> s[1],
     itunes_metadata |-> s[2]] : s \in {<< <<>>, "None" >>, << <<"sinf">>, "meta" >>} }

\* build_ipa_path: <packages>/<hash>/<bundle>/<version>/<id>.ipa, one path per task.
build_ipa_path(id) == "ipa"

\* A path tasks.json may name that resolves outside the packages root, and
\* asspp_core::security::path_within_base on the canonical paths of the model.
OutsidePath == "/srv/old/app.ipa"
path_within_base(p) == p = build_ipa_path(0)

\* DownloadTask::sanitize: the projection sent to clients, which omits
\* download_url, sinfs and itunes_metadata and adds file_exists.
sanitize(t, file_exists) ==
  [id |-> t.id, status |-> t.status, progress |-> t.progress, error |-> t.error,
   account_hash |-> t.account_hash, file_path |-> t.file_path,
   file_exists |-> file_exists]

\* DownloadTask::to_persisted: the projection written to tasks.json.
to_persisted(t) ==
  [id |-> t.id, status |-> "completed", progress |-> t.progress, error |-> t.error,
   account_hash |-> t.account_hash, file_path |-> t.file_path]

\* validate_download_url on the URLs a record can hold.
validate_download_url(u) == u = ValidUrl

HasSecrets(r) ==
  \/ ("download_url" \in DOMAIN r /\ r.download_url # "")
  \/ ("sinfs" \in DOMAIN r /\ r.sinfs # <<>>)
  \/ ("itunes_metadata" \in DOMAIN r /\ r.itunes_metadata # "None")

\* The bytes of tasks.json, one unit per bracket and per record.
\* serde_json::to_string_pretty of the array of the records S.
LBracket == [json |-> "["]
RBracket == [json |-> "]"]
RECURSIVE ArrayFrom(_, _)
ArrayFrom(S, id) ==
  IF id > MaxCreates THEN <<RBracket>>
  ELSE (IF \E r \in S : r.id = id THEN <<CHOOSE r \in S : r.id = id>> ELSE <<>>)
       \o ArrayFrom(S, id + 1)
to_string_pretty(S) == <<LBracket>> \o ArrayFrom(S, 0)

\* The records the bytes hold, whole or not as an array.
ItemsOf(data) == {data[i] : i \in DOMAIN data} \ {LBracket, RBracket}

\* serde_json::from_str::<Vec<Value>>: Ok for one whole array, Err for anything else.
from_str(data) ==
  [ok |-> /\ Len(data) >= 2
          /\ data[1] = LBracket
          /\ data[Len(data)] = RBracket
          /\ \A i \in 2 .. Len(data) - 1 : data[i] \notin {LBracket, RBracket},
   items |-> ItemsOf(data)]

\* ------------------------------------------------------------------ startup
\* A record tasks.json may hold for task 0 when the server starts.
DiskItem(st, fp, u) ==
  [id |-> 0, status |-> st, progress |-> 100, error |-> "None",
   account_hash |-> OwnerHash, file_path |-> fp, download_url |-> u[1],
   sinfs |-> u[2], itunes_metadata |-> u[3]]
Secrets == <<ValidUrl, <<"sinf">>, "meta">>
NoSecrets == <<"", <<>>, "None">>

\* AppState::load_tasks on one item of tasks.json.
Restorable(item, fs) ==
  /\ item.status = "completed"
  /\ item.file_path # "None"
  /\ fs[item.id] # NoFile

LoadedTask(item) ==
  [id |-> item.id, status |-> "Completed", progress |-> 100, error |-> item.error,
   file_path |-> item.file_path, account_hash |-> item.account_hash,
   download_url |-> "", sinfs |-> <<>>, itunes_metadata |-> "None"]

load_tasks(items, fs) ==
  [id \in Ids |->
     IF \E it \in items : it.id = id /\ Restorable(it, fs)
       THEN LoadedTask(CHOOSE it \in items : it.id = id /\ Restorable(it, fs))
       ELSE NoTask]

\* AppState::clean_orphaned_packages: the files under the packages root that no
\* loaded task references are removed (outside: the ids whose file lies elsewhere).
clean_orphaned_packages(ts, fs, outside) ==
  [id \in Ids |-> IF (ts[id] # NoTask /\ ts[id].file_path # "None") \/ id \in outside
                    THEN fs[id] ELSE NoFile]

\* The callers of persist_tasks: the workers, and delete_task (0).
Callers == 0 .. MaxWorkers
IdleWrite == [pc |-> "idle", data |-> <<>>]

IdleWorker == [pc |-> "idle", id |-> 0, resumed |-> FALSE, hasSinfs |-> FALSE,
               url |-> "", clen |-> 0, len |-> 0, got |-> 0, fd |-> 0, changed |-> FALSE]
IdlePause == [pc |-> "idle", id |-> 0, sent |-> FALSE, clone |-> NoTask, ver |-> 0]
IdleResume == [pc |-> "idle", id |-> 0]
IdleDelete == [pc |-> "idle", id |-> 0, path |-> "None"]
\* (seen and last are history: the status and the version of the last snapshot
\* handed to the client; ver counts the snapshots taken of the record.)
Subs == 1 .. MaxSubs
IdleSub == [pc |-> "idle", id |-> 0, chan |-> 0, initial |-> NoTask, q |-> <<>>,
            lagged |-> FALSE, seen |-> "none", last |-> 0]
NoHist == [paused |-> FALSE, ver |-> 0, counted |-> FALSE]

\* The state after AppState::new on a data directory holding tasks.json = items
\* and, when onDisk, the staged file of task 0 (versions: the history counts the
\* snapshots taken of each record).
Startup(items, onDisk, versions) ==
    LET fs0 == [id \in Ids |-> IF id = 0 /\ onDisk
                                 THEN [ino |-> -1, data |-> <<Chunk(0, 1)>>] ELSE NoFile]
        ts  == load_tasks(items, fs0)
        outside == {it.id : it \in {i \in items : ~path_within_base(i.file_path)}}
    IN /\ tasks = ts
       /\ files = clean_orphaned_packages(ts, fs0, outside)
       /\ dirs = [id \in Ids |-> clean_orphaned_packages(ts, fs0, outside)[id] # NoFile]
       /\ tasksJson = to_string_pretty(items)
       /\ pw = [c \in Callers |-> IdleWrite]
       /\ boot = [n |-> 0, outside |-> outside]
       /\ abort_handles = [id \in Ids |-> 0]
       /\ progress_tx = [id \in Ids |-> 0]
       /\ workers = [w \in Workers |-> IdleWorker]
       /\ nspawned = 0
       /\ ncreated = 0
       /\ pz = IdlePause
       /\ rs = IdleResume
       /\ dl = IdleDelete
       /\ sub = [k \in Subs |-> IdleSub]
       /\ resp = NoResp
       /\ hist = [id \in Ids |-> [NoHist EXCEPT !.counted = versions]]

\* No tunnel is open; no injection runs.
StreamIds == 1 .. MaxStreams
\* The keys of the stream map: the stream ids, and one more id for the tunnels
\* that carry two streams.
StreamSlots == 1 .. MaxStreams + 1
Conns == 1 .. MaxConnects
NoConn == [sid |-> 0, kind |-> "none", dial |-> "none", h |-> "none", r |-> "none",
           w |-> "none", rd |-> FALSE, wr |-> FALSE, inq |-> 0, reads |-> 0,
           ended |-> "none", closed |-> FALSE]
NoTunnel(srv, pc) ==
  /\ server = srv
  /\ ws_out = <<>>
  /\ streams = [s \in StreamSlots |-> 0]
  /\ conns = [c \in Conns |-> NoConn]
  /\ wisp = [pc |-> pc, nconn |-> 0, nin |-> 0, wait |-> 0]
NoInjection == zip = [pc |-> "none"]
NoSweep == sweep = [pc |-> "none"]
NoConfig == config = [pc |-> "none"]

\* An empty data directory, or one left by a run that completed task 0.
Init ==
  /\ \/ Startup({}, FALSE, FALSE)
     \/ Startup({DiskItem("completed", build_ipa_path(0), Secrets)}, TRUE, FALSE)
  /\ NoTunnel("standalone", "none")
  /\ NoInjection
  /\ NoSweep /\ NoConfig

\* An empty data directory.
InitApi == Startup({}, FALSE, FALSE) /\ NoTunnel("standalone", "none") /\ NoInjection
           /\ NoSweep /\ NoConfig

\* ------------------------------------------------------------- primitives
\* A write of byte b at offset off through a file descriptor (a hole reads as Chunk(0, 0)).
RECURSIVE Zeros(_)
Zeros(n) == IF n <= 0 THEN <<>> ELSE <<Chunk(0, 0)>> \o Zeros(n - 1)
WriteAt(data, off, b) ==
  IF off < Len(data) THEN [data EXCEPT ![off + 1] = b]
  ELSE data \o Zeros(off - Len(data)) \o <<b>>

\* The worker still polls abort_rx (it has not left the chunk loop).
Listening(pc) ==
  pc \in {"setDl", "snap", "mkdir", "storePath", "http", "create", "loop"}

\* A watch::Sender leaves the map (sent to, replaced or removed): the receiver of
\* worker old sees changed() complete.
DropSender(ws, old) ==
  IF old # 0 /\ Listening(ws[old].pc) THEN [ws EXCEPT ![old].changed = TRUE] ELSE ws

\* broadcast::Sender::send to the subscribers of the task's channel.
ChannelCap == 2
Deliver(s, t, v) ==
  IF s.pc = "stream" /\ s.id = t.id /\ s.chan # 0 /\ progress_tx[t.id] = s.chan
    THEN IF Len(s.q) < ChannelCap
           THEN [s EXCEPT !.q = Append(@, [snap |-> t, ver |-> v])]
           ELSE [s EXCEPT !.q = Append(Tail(@), [snap |-> t, ver |-> v]), !.lagged = TRUE]
    ELSE s

\* AppState::notify_progress of the snapshot t, the v-th taken of the record.
notify_progress(t, v) == sub' = [k \in Subs |-> Deliver(sub[k], t, v)]

\* A snapshot of record id is taken under the write lock (counted where the
\* history keeps versions).
Stamped(id) == IF hist[id].counted THEN [hist EXCEPT ![id].ver = @ + 1] ELSE hist

\* AppState::persist_tasks: the Completed records with a file path.
persist_tasks(ts) ==
  { to_persisted(ts[id]) :
      id \in {i \in Ids : ts[i] # NoTask /\ ts[i].status = "Completed"
                          /\ ts[i].file_path # "None"} }

Done(W) == [IdleWorker EXCEPT !.pc = "done", !.id = W.id, !.resumed = W.resumed]
Failing(W) == [Done(W) EXCEPT !.pc = "fail1"]

SetW(w, W) == workers' = [workers EXCEPT ![w] = W]
Active(w) == workers[w].pc \notin {"idle", "done"}

\* tokio::spawn(start_download(state, id)): the next worker slot starts.
spawn(id, resumed) ==
  /\ nspawned' = nspawned + 1
  /\ workers' = [workers EXCEPT ![nspawned + 1] =
                   [IdleWorker EXCEPT !.pc = "start", !.id = id, !.resumed = resumed]]

\* ------------------------------------------------------- start_download
\* Lines 121-126: the abort channel is created and registered.
Register(w) ==
  LET W == workers[w] IN
  /\ W.pc = "start"
  /\ abort_handles' = [abort_handles EXCEPT ![W.id] = w]
  /\ workers' = [DropSender(workers, abort_handles[W.id]) EXCEPT ![w].pc = "setDl"]
  /\ UNCHANGED <<tasks, progress_tx, nspawned, ncreated, wispVars, zipVars, diskVars, files, dirs, tasksJson,
                 pz, rs, dl, sub, resp, hist>>

\* Lines 129-140: the record goes to Downloading, or the worker returns.
SetDownloadingRecord(t) ==
  [t EXCEPT !.status = "Downloading", !.progress = 0, !.error = "None"]

SetDownloading(w) ==
  LET W == workers[w] IN
  /\ W.pc = "setDl"
  /\ IF tasks[W.id] # NoTask
       THEN /\ tasks' = [tasks EXCEPT ![W.id] = SetDownloadingRecord(@)]
            /\ notify_progress(tasks'[W.id], hist[W.id].ver + 1)
            /\ hist' = Stamped(W.id)
            /\ SetW(w, [W EXCEPT !.pc = "snap"])
       ELSE /\ SetW(w, Done(W))
            /\ UNCHANGED <<tasks, sub, hist>>
  /\ UNCHANGED <<abort_handles, progress_tx, nspawned, ncreated, wispVars, zipVars, diskVars, files, dirs,
                 tasksJson, pz, rs, dl, resp>>

\* Lines 143-158: the worker copies what it needs from the record.
Snapshot(w) ==
  LET W == workers[w] IN
  /\ W.pc = "snap"
  /\ IF tasks[W.id] # NoTask
       THEN SetW(w, [W EXCEPT !.pc = "mkdir", !.url = tasks[W.id].download_url,
                              !.hasSinfs = (tasks[W.id].sinfs # <<>>)])
       ELSE SetW(w, Done(W))
  /\ UNCHANGED <<tasks, abort_handles, progress_tx, nspawned, ncreated, wispVars, zipVars, diskVars, files, dirs,
                 tasksJson, pz, rs, dl, sub, resp, hist>>

\* Lines 161-180: build_task_dir and create_dir_all, either of which may fail.
MakeDir(w) ==
  LET W == workers[w] IN
  /\ W.pc = "mkdir"
  /\ \/ /\ dirs' = [dirs EXCEPT ![W.id] = TRUE]
        /\ SetW(w, [W EXCEPT !.pc = "storePath"])
     \/ /\ SetW(w, Failing(W))
        /\ UNCHANGED dirs
  /\ UNCHANGED <<tasks, abort_handles, progress_tx, nspawned, ncreated, wispVars, zipVars, diskVars, files,
                 tasksJson, pz, rs, dl, sub, resp, hist>>

\* Lines 182-190: the file path is stored in the record, if there is one.
StorePath(w) ==
  LET W == workers[w] IN
  /\ W.pc = "storePath"
  /\ tasks' = IF tasks[W.id] # NoTask
                THEN [tasks EXCEPT ![W.id].file_path = build_ipa_path(W.id)]
                ELSE tasks
  /\ SetW(w, [W EXCEPT !.pc = "http"])
  /\ UNCHANGED <<abort_handles, progress_tx, nspawned, ncreated, wispVars, zipVars, diskVars, files, dirs,
                 tasksJson, pz, rs, dl, sub, resp, hist>>

\* The cap, one byte above the bodies of MaxChunks bytes (a chunk is one byte).
MAX_DOWNLOAD_SIZE == MaxChunks + 1

\* A response: its Content-Length (0: absent) and the length of its body.
Upstream(clen, len) == [clen |-> clen, len |-> len]

\* Bodies of MaxChunks bytes, declared as they are or as more than the cap.
DeclaredLengths ==
  {Upstream(MaxChunks, MaxChunks), Upstream(MAX_DOWNLOAD_SIZE + 1, MaxChunks)}

\* Bodies of up to one byte more than the cap, each declared as it is, not at
\* all, or as more than the cap.
Responses ==
  {Upstream(c, n) : <<c, n>> \in {x \in (0 .. MAX_DOWNLOAD_SIZE + 1) \X (1 .. MAX_DOWNLOAD_SIZE + 1) :
                                    x[1] \in {0, x[2], MAX_DOWNLOAD_SIZE + 1}}}

\* Lines 226 and 253: the comparison with the cap.
\* (NeverTooLarge: no cap.)
NeverTooLarge(n) == FALSE

too_large(n) == n > MAX_DOWNLOAD_SIZE

\* Lines 193-229: the URL is validated again, the GET is sent from byte zero, and
\* the status and the declared length are checked.
HttpRequest(w, cls) ==
  LET W == workers[w] IN
  /\ W.pc = "http"
  /\ IF ~validate_download_url(W.url)
       THEN SetW(w, Failing(W))
       ELSE \/ \E r \in cls :
                 IF too_large(r.clen)
                   THEN SetW(w, Failing(W))
                   ELSE SetW(w, [W EXCEPT !.pc = "create", !.clen = r.clen, !.len = r.len,
                                          !.got = 0])
            \/ SetW(w, Failing(W))                        \* a status that is not 2xx
            \/ SetW(w, [W EXCEPT !.pc = "isAborted"])     \* send() returned Err
  /\ UNCHANGED <<tasks, abort_handles, progress_tx, nspawned, ncreated, wispVars, zipVars, diskVars, files, dirs,
                 tasksJson, pz, rs, dl, sub, resp, hist>>

\* Lines 357-360 at lines 207 and 287: an error is silent iff the record is Paused.
is_aborted(id) == tasks[id] # NoTask /\ tasks[id].status = "Paused"

IsAborted(w) ==
  LET W == workers[w] IN
  /\ W.pc = "isAborted"
  /\ SetW(w, IF is_aborted(W.id) THEN Done(W) ELSE Failing(W))
  /\ UNCHANGED <<tasks, abort_handles, progress_tx, nspawned, ncreated, wispVars, zipVars, diskVars, files, dirs,
                 tasksJson, pz, rs, dl, sub, resp, hist>>

\* File::create: the file at the path is truncated, or a new one is made.
create_file(f, w) == IF f = NoFile THEN [ino |-> w, data |-> <<>>] ELSE [f EXCEPT !.data = <<>>]

\* Lines 231-243: the staged file is created; it fails without its directory.
CreateFile(w) ==
  LET W == workers[w] IN
  /\ W.pc = "create"
  /\ \/ /\ dirs[W.id]
        /\ files' = [files EXCEPT ![W.id] = create_file(@, w)]
        /\ SetW(w, [W EXCEPT !.pc = "loop", !.fd = files'[W.id].ino, !.got = 0])
     \/ /\ SetW(w, Failing(W))
        /\ UNCHANGED files
  /\ UNCHANGED <<tasks, abort_handles, progress_tx, nspawned, ncreated, wispVars, zipVars, diskVars, dirs,
                 tasksJson, pz, rs, dl, sub, resp, hist>>

\* Line 273: ((downloaded / content_length) * 100.0).round() as u8
\* (PerMille: the ratio scaled by 1000.)
PerMille(downloaded, content_length) ==
  LET r == (2000 * downloaded + content_length) \div (2 * content_length)
  IN IF r > 255 THEN 255 ELSE r

Round100(downloaded, content_length) ==
  LET r == (200 * downloaded + content_length) \div (2 * content_length)
  IN IF r > 255 THEN 255 ELSE r

\* write_all through the worker's descriptor: it reaches the file at the path only
\* while that file is still the one the worker created or truncated.
write_all(f, fd, off, b) ==
  IF f # NoFile /\ f.ino = fd THEN [f EXCEPT !.data = WriteAt(@, off, b)] ELSE f

\* Lines 248-285: select! took a chunk: it is counted, written, and (when 500 ms
\* have passed) the record's progress is updated.  The branch is taken whenever the
\* stream is ready, also when abort_rx.changed() is ready too.
TakeChunk(w) ==
  LET W == workers[w]
      downloaded == W.got + 1
  IN
  /\ W.pc = "loop"
  /\ W.got < W.len
  /\ IF too_large(downloaded)
       THEN /\ SetW(w, Failing(W))
            /\ UNCHANGED <<files, tasks, sub, hist>>
       ELSE \/ /\ SetW(w, Failing(W))                    \* write_all returned Err
               /\ UNCHANGED <<files, tasks, sub, hist>>
            \/ /\ files' = [files EXCEPT ![W.id] = write_all(@, W.fd, W.got, Chunk(w, downloaded))]
               /\ SetW(w, [W EXCEPT !.got = downloaded])
               /\ \/ UNCHANGED <<tasks, sub, hist>>    \* less than 500 ms since the last tick
                  \/ /\ tasks[W.id] # NoTask
                     /\ tasks' = [tasks EXCEPT ![W.id].progress =
                                    IF W.clen > 0 THEN Round100(downloaded, W.clen) ELSE 0]
                     /\ notify_progress(tasks'[W.id], hist[W.id].ver + 1)
                     /\ hist' = Stamped(W.id)
  /\ UNCHANGED <<abort_handles, progress_tx, nspawned, ncreated, wispVars, zipVars, diskVars, dirs, tasksJson,
                 pz, rs, dl, resp>>

\* Lines 286-292: the stream returned an error.
StreamError(w) ==
  LET W == workers[w] IN
  /\ W.pc = "loop"
  /\ W.got < W.len
  /\ SetW(w, [Done(W) EXCEPT !.pc = "isAborted"])
  /\ UNCHANGED <<tasks, abort_handles, progress_tx, nspawned, ncreated, wispVars, zipVars, diskVars, files, dirs,
                 tasksJson, pz, rs, dl, sub, resp, hist>>

\* Line 293: the stream ended; the loop is left.
StreamEnd(w) ==
  LET W == workers[w] IN
  /\ W.pc = "loop"
  /\ W.got = W.len
  /\ SetW(w, [W EXCEPT !.pc = "flush", !.changed = FALSE])
  /\ UNCHANGED <<tasks, abort_handles, progress_tx, nspawned, ncreated, wispVars, zipVars, diskVars, files, dirs,
                 tasksJson, pz, rs, dl, sub, resp, hist>>

\* Lines 296-299: select! took abort_rx.changed(): the worker returns.
Aborted(w) ==
  LET W == workers[w] IN
  /\ W.pc = "loop"
  /\ W.changed
  /\ SetW(w, Done(W))
  /\ UNCHANGED <<tasks, abort_handles, progress_tx, nspawned, ncreated, wispVars, zipVars, diskVars, files, dirs,
                 tasksJson, pz, rs, dl, sub, resp, hist>>

\* Lines 304-308: the file is flushed and closed.
Flush(w) ==
  LET W == workers[w] IN
  /\ W.pc = "flush"
  /\ \/ SetW(w, [W EXCEPT !.pc = "rmHandle", !.fd = 0, !.got = 0, !.url = ""])
     \/ SetW(w, Failing(W))
  /\ UNCHANGED <<tasks, abort_handles, progress_tx, nspawned, ncreated, wispVars, zipVars, diskVars, files, dirs,
                 tasksJson, pz, rs, dl, sub, resp, hist>>

\* Line 311: whatever entry the id has in abort_handles is removed.
RemoveHandle(w) ==
  LET W == workers[w] IN
  /\ W.pc = "rmHandle"
  /\ abort_handles' = [abort_handles EXCEPT ![W.id] = 0]
  /\ workers' = [DropSender(workers, abort_handles[W.id]) EXCEPT
                   ![w].pc = IF W.hasSinfs THEN "setInj" ELSE "setDone"]
  /\ UNCHANGED <<tasks, progress_tx, nspawned, ncreated, wispVars, zipVars, diskVars, files, dirs, tasksJson,
                 pz, rs, dl, sub, resp, hist>>

\* Lines 314-322: the record goes to Injecting, if there is one.
SetInjecting(w) ==
  LET W == workers[w] IN
  /\ W.pc = "setInj"
  /\ IF tasks[W.id] # NoTask
       THEN /\ tasks' = [tasks EXCEPT ![W.id].status = "Injecting", ![W.id].progress = 100]
            /\ notify_progress(tasks'[W.id], hist[W.id].ver + 1)
            /\ hist' = Stamped(W.id)
       ELSE UNCHANGED <<tasks, sub, hist>>
  /\ SetW(w, [W EXCEPT !.pc = "inject"])
  /\ UNCHANGED <<abort_handles, progress_tx, nspawned, ncreated, wispVars, zipVars, diskVars, files, dirs,
                 tasksJson, pz, rs, dl, resp>>

\* sinf_injector::inject on the staged file: the archive is rewritten into a
\* temporary file that is renamed over it.
injected(f, w) == [ino |-> MaxWorkers + w, data |-> Append(f.data, Chunk(-1, w))]

\* Lines 324-327: the injection runs; it fails without the file.
Inject(w) ==
  LET W == workers[w] IN
  /\ W.pc = "inject"
  /\ \/ /\ files[W.id] # NoFile
        /\ files' = [files EXCEPT ![W.id] = injected(@, w)]
        /\ SetW(w, [W EXCEPT !.pc = "setDone"])
     \/ /\ SetW(w, Failing(W))
        /\ UNCHANGED files
  /\ UNCHANGED <<tasks, abort_handles, progress_tx, nspawned, ncreated, wispVars, zipVars, diskVars, dirs,
                 tasksJson, pz, rs, dl, sub, resp, hist>>

\* Lines 331-341: the record goes to Completed and loses its secrets.
\* (KeepSecrets: the same update without lines 335-337.)
KeepSecrets(t) == [t EXCEPT !.status = "Completed", !.progress = 100]

SetCompletedRecord(t) ==
  [t EXCEPT !.status = "Completed", !.progress = 100, !.download_url = "",
            !.sinfs = <<>>, !.itunes_metadata = "None"]

SetCompleted(w) ==
  LET W == workers[w] IN
  /\ W.pc = "setDone"
  /\ IF tasks[W.id] # NoTask
       THEN /\ tasks' = [tasks EXCEPT ![W.id] = SetCompletedRecord(@)]
            /\ notify_progress(tasks'[W.id], hist[W.id].ver + 1)
            /\ hist' = Stamped(W.id)
       ELSE UNCHANGED <<tasks, sub, hist>>
  /\ SetW(w, [Done(W) EXCEPT !.pc = "persist"])
  /\ UNCHANGED <<abort_handles, progress_tx, nspawned, ncreated, wispVars, zipVars, diskVars, files, dirs,
                 tasksJson, pz, rs, dl, resp>>

\* Line 343: tasks.json is rewritten; the worker returns.
Persist(w) ==
  LET W == workers[w] IN
  /\ W.pc = "persist"
  /\ tasksJson' = to_string_pretty(persist_tasks(tasks))
  /\ SetW(w, Done(W))
  /\ UNCHANGED <<tasks, abort_handles, progress_tx, nspawned, ncreated, wispVars, zipVars, diskVars, files, dirs,
                 pz, rs, dl, sub, resp, hist>>

\* fail_task, line 347: the abort entry of the id is removed.
FailRemoveHandle(w) ==
  LET W == workers[w] IN
  /\ W.pc = "fail1"
  /\ abort_handles' = [abort_handles EXCEPT ![W.id] = 0]
  /\ workers' = [DropSender(workers, abort_handles[W.id]) EXCEPT ![w].pc = "fail2"]
  /\ UNCHANGED <<tasks, progress_tx, nspawned, ncreated, wispVars, zipVars, diskVars, files, dirs, tasksJson,
                 pz, rs, dl, sub, resp, hist>>

\* fail_task, lines 348-354: the record goes to Failed, if there is one.
FailRecord(t) == [t EXCEPT !.status = "Failed", !.error = "Download failed"]

FailTask(w) ==
  LET W == workers[w] IN
  /\ W.pc = "fail2"
  /\ IF tasks[W.id] # NoTask
       THEN /\ tasks' = [tasks EXCEPT ![W.id] = FailRecord(@)]
            /\ notify_progress(tasks'[W.id], hist[W.id].ver + 1)
            /\ hist' = [Stamped(W.id) EXCEPT ![W.id].paused = FALSE]
       ELSE UNCHANGED <<tasks, sub, hist>>
  /\ SetW(w, Done(W))
  /\ UNCHANGED <<abort_handles, progress_tx, nspawned, ncreated, wispVars, zipVars, diskVars, files, dirs,
                 tasksJson, pz, rs, dl, resp>>

WorkerStep(w, cls) ==
  \/ Register(w) \/ SetDownloading(w) \/ Snapshot(w) \/ MakeDir(w) \/ StorePath(w)
  \/ HttpRequest(w, cls) \/ IsAborted(w) \/ CreateFile(w) \/ TakeChunk(w) \/ StreamError(w)
  \/ StreamEnd(w) \/ Aborted(w) \/ Flush(w) \/ RemoveHandle(w) \/ SetInjecting(w)
  \/ Inject(w) \/ SetCompleted(w) \/ Persist(w) \/ FailRemoveHandle(w) \/ FailTask(w)

\* ------------------------------------------------------------ HTTP handlers
\* A response: its status and the task snapshots of its body.
Reply(kind, id, h, st, body) ==
  [kind |-> kind, id |-> id, hash |-> h, status |-> st, body |-> body]
Respond(log, r) == resp' = IF log THEN r ELSE resp

\* downloads.rs require_account_hash: the hash of the query is long enough.
\* (LongerThan8: the comparison off by one.)
LongerThan8(h) == Len(h) > 8

require_account_hash(h) == Len(h) >= 8

\* downloads.rs verify_ownership
verify_ownership(task_hash, h) == task_hash = h

\* The check that opens get, progress, pause, resume and delete of a download:
\* 400, else 404, else 403, else 200 (the handler goes on).
CheckOwnership(id, h) ==
  IF ~require_account_hash(h) THEN 400
  ELSE IF tasks[id] = NoTask THEN 404
  ELSE IF ~verify_ownership(tasks[id].account_hash, h) THEN 403
  ELSE 200

\* task.file_path.map(|p| Path::new(p).exists()).unwrap_or(false)
file_exists(t) == t.file_path # "None" /\ files[t.id] # NoFile

\* The body of an answer: task.sanitize(file_exists).
\* (Unsanitized: the record serialised as it is.)
Unsanitized(t) == t

Sanitized(t) == sanitize(t, file_exists(t))

\* create_download with a request that fails validation: 400.
\* create_download and create_task, lines 11-27: the record is inserted and its
\* worker spawned; the answer is the sanitised record.
CreateDownload(maxW, log) ==
  \/ /\ Respond(log, Reply("create", 0, OwnerHash, 400, {}))
     /\ UNCHANGED <<tasks, abort_handles, progress_tx, workers, nspawned, ncreated, wispVars, zipVars, diskVars,
                    files, dirs, tasksJson, pz, rs, dl, sub, hist>>
  \/ /\ ncreated < MaxCreates
     /\ nspawned < maxW
     /\ \E req \in CreateRequests :
          LET id == ncreated + 1 IN
          /\ tasks' = [tasks EXCEPT ![id] = new_task(id, req)]
          /\ Respond(log, Reply("create", id, req.account_hash, 201,
                                      {sanitize(tasks'[id], FALSE)}))
          /\ ncreated' = id
          /\ spawn(id, FALSE)
     /\ UNCHANGED <<abort_handles, progress_tx, files, dirs, tasksJson, pz, rs, dl,
                    sub, hist, wispVars, zipVars, diskVars>>

\* get_download
GetDownload(id, h, log) ==
  /\ Respond(log, Reply("get", id, h, CheckOwnership(id, h),
                IF CheckOwnership(id, h) = 200 THEN {Sanitized(tasks[id])} ELSE {}))
  /\ UNCHANGED <<tasks, abort_handles, progress_tx, workers, nspawned, ncreated, wispVars, zipVars, diskVars,
                 files, dirs, tasksJson, pz, rs, dl, sub, hist>>

\* list_downloads: the tasks of the listed hashes.
ListDownloads(hs, log) ==
  /\ Respond(log, Reply("list", 0, "", 200,
                {Sanitized(tasks[id]) :
                   id \in {i \in Ids : tasks[i] # NoTask /\ tasks[i].account_hash \in hs}}))
  /\ UNCHANGED <<tasks, abort_handles, progress_tx, workers, nspawned, ncreated, wispVars, zipVars, diskVars,
                 files, dirs, tasksJson, pz, rs, dl, sub, hist>>

\* No pause, resume or delete request is in flight.
NoRequest == pz.pc = "idle" /\ rs.pc = "idle" /\ dl.pc = "idle"

\* pause_download, the check before pause_task.
PauseCheck(id, h, solo, log) ==
  /\ pz.pc = "idle"
  /\ solo => NoRequest
  /\ IF CheckOwnership(id, h) = 200
       THEN /\ pz' = [IdlePause EXCEPT !.pc = "p1", !.id = id]
            /\ UNCHANGED resp
       ELSE /\ Respond(log, Reply("pause", id, h, CheckOwnership(id, h), {}))
            /\ UNCHANGED pz
  /\ UNCHANGED <<tasks, abort_handles, progress_tx, workers, nspawned, ncreated, wispVars, zipVars, diskVars,
                 files, dirs, tasksJson, rs, dl, sub, hist>>

\* pause_task, lines 31-39: under the write lock a Downloading record becomes
\* Paused; any other call returns false (and pause_download answers 400).
CanPause(t) == t # NoTask /\ t.status = "Downloading"

PauseTask1(log) ==
  /\ pz.pc = "p1"
  /\ IF CanPause(tasks[pz.id])
       THEN /\ tasks' = [tasks EXCEPT ![pz.id].status = "Paused"]
            /\ pz' = [pz EXCEPT !.pc = "p2", !.clone = tasks'[pz.id],
                                !.ver = hist[pz.id].ver + 1]
            /\ hist' = Stamped(pz.id)
            /\ UNCHANGED resp
       ELSE /\ Respond(log, Reply("pause", pz.id, OwnerHash, 400, {}))
            /\ pz' = IdlePause
            /\ UNCHANGED <<tasks, hist>>
  /\ UNCHANGED <<abort_handles, progress_tx, workers, nspawned, ncreated, wispVars, zipVars, diskVars, files,
                 dirs, tasksJson, rs, dl, sub>>

\* pause_task, lines 42-45: the abort entry is removed and signalled, if any.
PauseTask2 ==
  /\ pz.pc = "p2"
  /\ abort_handles' = [abort_handles EXCEPT ![pz.id] = 0]
  /\ workers' = DropSender(workers, abort_handles[pz.id])
  /\ pz' = [pz EXCEPT !.pc = "p3", !.sent = (abort_handles[pz.id] # 0)]
  /\ UNCHANGED <<tasks, progress_tx, nspawned, ncreated, wispVars, zipVars, diskVars, files, dirs, tasksJson,
                 rs, dl, sub, resp, hist>>

\* pause_task, lines 47-48: the clone taken under the lock is broadcast, and true
\* is returned.
PauseTask3 ==
  /\ pz.pc = "p3"
  /\ notify_progress(pz.clone, pz.ver)
  /\ pz' = [pz EXCEPT !.pc = "ret", !.clone = NoTask, !.ver = 0]
  /\ hist' = [hist EXCEPT ![pz.id].paused = TRUE]
  /\ UNCHANGED <<tasks, abort_handles, progress_tx, workers, nspawned, ncreated, wispVars, zipVars, diskVars,
                 files, dirs, tasksJson, rs, dl, resp>>

\* pause_download after pause_task returned true: tasks.get(&id).unwrap().
PauseRespond(log) ==
  /\ pz.pc = "ret"
  /\ Respond(log, IF tasks[pz.id] # NoTask
                    THEN Reply("pause", pz.id, OwnerHash, 200, {Sanitized(tasks[pz.id])})
                    ELSE Reply("pause", pz.id, OwnerHash, 0, {}))   \* unwrap panics: no answer
  /\ pz' = IdlePause
  /\ UNCHANGED <<tasks, abort_handles, progress_tx, workers, nspawned, ncreated, wispVars, zipVars, diskVars,
                 files, dirs, tasksJson, rs, dl, sub, hist>>

\* resume_download, the check before resume_task.
ResumeCheck(id, h, solo, log) ==
  /\ rs.pc = "idle"
  /\ solo => NoRequest
  /\ IF CheckOwnership(id, h) = 200
       THEN /\ rs' = [pc |-> "r1", id |-> id]
            /\ UNCHANGED resp
       ELSE /\ Respond(log, Reply("resume", id, h, CheckOwnership(id, h), {}))
            /\ UNCHANGED rs
  /\ UNCHANGED <<tasks, abort_handles, progress_tx, workers, nspawned, ncreated, wispVars, zipVars, diskVars,
                 files, dirs, tasksJson, pz, dl, sub, hist>>

\* resume_task, lines 52-68: a Paused record gets a new worker; any other call
\* returns false (and resume_download answers 400).
\* (ResumeUnlessRunning: the check inverted into 'not Downloading'.)
ResumeUnlessRunning(t) == t # NoTask /\ t.status # "Downloading"

CanResume(t) == t # NoTask /\ t.status = "Paused"

ResumeTask(maxW, log) ==
  /\ rs.pc = "r1"
  /\ IF CanResume(tasks[rs.id])
       THEN /\ nspawned < maxW
            /\ spawn(rs.id, TRUE)
            /\ rs' = [rs EXCEPT !.pc = "ret"]
            /\ hist' = [hist EXCEPT ![rs.id].paused = FALSE]
            /\ UNCHANGED resp
       ELSE /\ Respond(log, Reply("resume", rs.id, OwnerHash, 400, {}))
            /\ rs' = IdleResume
            /\ UNCHANGED <<workers, nspawned, hist>>
  /\ UNCHANGED <<tasks, abort_handles, progress_tx, ncreated, wispVars, zipVars, diskVars, files, dirs, tasksJson,
                 pz, dl, sub>>

\* resume_download after resume_task returned true: tasks.get(&id).unwrap().
ResumeRespond(log) ==
  /\ rs.pc = "ret"
  /\ Respond(log, IF tasks[rs.id] # NoTask
                    THEN Reply("resume", rs.id, OwnerHash, 200, {Sanitized(tasks[rs.id])})
                    ELSE Reply("resume", rs.id, OwnerHash, 0, {}))  \* unwrap panics: no answer
  /\ rs' = IdleResume
  /\ UNCHANGED <<tasks, abort_handles, progress_tx, workers, nspawned, ncreated, wispVars, zipVars, diskVars,
                 files, dirs, tasksJson, pz, dl, sub, hist>>

\* delete_download, the check before delete_task.
DeleteCheck(id, h, solo, log) ==
  /\ dl.pc = "idle"
  /\ solo => NoRequest
  /\ IF CheckOwnership(id, h) = 200
       THEN /\ dl' = [IdleDelete EXCEPT !.pc = "d1", !.id = id]
            /\ UNCHANGED resp
       ELSE /\ Respond(log, Reply("delete", id, h, CheckOwnership(id, h), {}))
            /\ UNCHANGED dl
  /\ UNCHANGED <<tasks, abort_handles, progress_tx, workers, nspawned, ncreated, wispVars, zipVars, diskVars,
                 files, dirs, tasksJson, pz, rs, sub, hist>>

\* delete_task, lines 73-78: the abort entry is removed and signalled, if any.
DeleteTask1 ==
  /\ dl.pc = "d1"
  /\ abort_handles' = [abort_handles EXCEPT ![dl.id] = 0]
  /\ workers' = DropSender(workers, abort_handles[dl.id])
  /\ dl' = [dl EXCEPT !.pc = "d2"]
  /\ UNCHANGED <<tasks, progress_tx, nspawned, ncreated, wispVars, zipVars, diskVars, files, dirs, tasksJson,
                 pz, rs, sub, resp, hist>>

\* path_within_base(resolved, packages_base) && resolved.exists(), for the path of
\* a record.
removable(path, id) == path # "None" /\ path_within_base(path) /\ files[id] # NoFile

\* delete_task, lines 80-90: the record is removed; its file is looked up.
DeleteTask2 ==
  /\ dl.pc = "d2"
  /\ tasks' = [tasks EXCEPT ![dl.id] = NoTask]
  /\ dl' = IF tasks[dl.id] # NoTask /\ removable(tasks[dl.id].file_path, dl.id)
             THEN [dl EXCEPT !.pc = "d3", !.path = tasks[dl.id].file_path]
             ELSE [dl EXCEPT !.pc = "d4"]
  /\ hist' = [hist EXCEPT ![dl.id].paused = FALSE]
  /\ UNCHANGED <<abort_handles, progress_tx, workers, nspawned, ncreated, wispVars, zipVars, diskVars, files,
                 dirs, tasksJson, pz, rs, sub, resp>>

\* Lines 91-110 (and packages.rs 215-234): the file is removed and the directories
\* it leaves empty are removed, up to the packages root.
remove_staged(id) ==
  /\ files' = [files EXCEPT ![id] = NoFile]
  /\ dirs' = [dirs EXCEPT ![id] = FALSE]

DeleteTask3 ==
  /\ dl.pc = "d3"
  /\ remove_staged(dl.id)
  /\ dl' = [dl EXCEPT !.pc = "d4", !.path = "None"]
  /\ UNCHANGED <<tasks, abort_handles, progress_tx, workers, nspawned, ncreated, wispVars, zipVars, diskVars,
                 tasksJson, pz, rs, sub, resp, hist>>

\* delete_task, line 115: the progress channel of the id is removed.
DeleteTask4 ==
  /\ dl.pc = "d4"
  /\ progress_tx' = [progress_tx EXCEPT ![dl.id] = 0]
  /\ dl' = [dl EXCEPT !.pc = "d5"]
  /\ UNCHANGED <<tasks, abort_handles, workers, nspawned, ncreated, wispVars, zipVars, diskVars, files, dirs,
                 tasksJson, pz, rs, sub, resp, hist>>

\* delete_task, line 116, and the answer of delete_download.
DeleteTask5(log) ==
  /\ dl.pc = "d5"
  /\ tasksJson' = to_string_pretty(persist_tasks(tasks))
  /\ Respond(log, Reply("delete", dl.id, OwnerHash, 200, {}))
  /\ dl' = IdleDelete
  /\ UNCHANGED <<tasks, abort_handles, progress_tx, workers, nspawned, ncreated, wispVars, zipVars, diskVars,
                 files, dirs, pz, rs, sub, hist>>

\* packages.rs download_file: 400, else 404 unless a Completed task has the id,
\* else 403, else 404 without the file, else 403 for a file outside the packages
\* root, else the file.
DownloadFileStatus(id, h) ==
  IF Len(h) < 8 THEN 400
  ELSE IF ~(tasks[id] # NoTask /\ tasks[id].status = "Completed") THEN 404
  ELSE IF tasks[id].account_hash # h THEN 403
  ELSE IF tasks[id].file_path = "None" \/ files[id] = NoFile THEN 404
  ELSE IF ~path_within_base(tasks[id].file_path) THEN 403
  ELSE 200

DownloadFile(id, h, log) ==
  /\ Respond(log, Reply("file", id, h, DownloadFileStatus(id, h), {}))
  /\ UNCHANGED <<tasks, abort_handles, progress_tx, workers, nspawned, ncreated, wispVars, zipVars, diskVars,
                 files, dirs, tasksJson, pz, rs, dl, sub, hist>>

\* packages.rs delete_package: 400, else 404, else 403, else 404 without a file
\* path, else the file is removed.
DeletePackageStatus(id, h) ==
  IF Len(h) < 8 THEN 400
  ELSE IF tasks[id] = NoTask THEN 404
  ELSE IF tasks[id].account_hash # h THEN 403
  ELSE IF tasks[id].file_path = "None" THEN 404
  ELSE 200

DeletePackage(id, h, log) ==
  /\ Respond(log, Reply("package", id, h, DeletePackageStatus(id, h), {}))
  /\ IF DeletePackageStatus(id, h) = 200 /\ removable(tasks[id].file_path, id)
       THEN remove_staged(id)
       ELSE UNCHANGED <<files, dirs>>
  /\ UNCHANGED <<tasks, abort_handles, progress_tx, workers, nspawned, ncreated, wispVars, zipVars, diskVars,
                 tasksJson, pz, rs, dl, sub, hist>>

\* progress_stream, lines 148-161: the check, and the clone of the record.
ProgressCheck(k, id, h, log) ==
  /\ sub[k].pc = "idle"
  /\ IF CheckOwnership(id, h) = 200
       THEN /\ sub' = [sub EXCEPT ![k] = [IdleSub EXCEPT !.pc = "lookup", !.id = id,
                                                         !.initial = tasks[id],
                                                         !.last = hist[id].ver]]
            /\ UNCHANGED resp
       ELSE /\ Respond(log, Reply("progress", id, h, CheckOwnership(id, h), {}))
            /\ UNCHANGED sub
  /\ UNCHANGED <<tasks, abort_handles, progress_tx, workers, nspawned, ncreated, wispVars, zipVars, diskVars,
                 files, dirs, tasksJson, pz, rs, dl, hist>>

\* get_or_create_progress_tx, lines 133-136, and lines 164-166: the channel of the
\* id is found under the read lock and subscribed to; the first event is built.
ProgressLookup(k) ==
  /\ sub[k].pc = "lookup"
  /\ sub' = [sub EXCEPT ![k] =
               IF progress_tx[sub[k].id] # 0
                 THEN [@ EXCEPT !.pc = "stream", !.chan = progress_tx[sub[k].id],
                                !.initial = Sanitized(@)]
                 ELSE [@ EXCEPT !.pc = "insert"]]
  /\ UNCHANGED <<tasks, abort_handles, progress_tx, workers, nspawned, ncreated, wispVars, zipVars, diskVars,
                 files, dirs, tasksJson, pz, rs, dl, resp, hist>>

\* broadcast::channel(64): a channel no map entry and no receiver refers to.
NewChannel ==
  CHOOSE n \in 1 .. MaxSubs + MaxCreates + 2 :
    /\ \A id \in Ids : progress_tx[id] # n
    /\ \A k \in Subs : sub[k].chan # n

\* get_or_create_progress_tx, lines 137-141: a new channel is inserted under the
\* write lock, whatever the map holds by now.
ProgressInsert(k) ==
  /\ sub[k].pc = "insert"
  /\ progress_tx' = [progress_tx EXCEPT ![sub[k].id] = NewChannel]
  /\ sub' = [sub EXCEPT ![k] = [@ EXCEPT !.pc = "stream", !.chan = NewChannel,
                                         !.initial = Sanitized(@)]]
  /\ UNCHANGED <<tasks, abort_handles, workers, nspawned, ncreated, wispVars, zipVars, diskVars, files, dirs,
                 tasksJson, pz, rs, dl, resp, hist>>

\* ProgressStream::poll_next, lines 178-180: the first event.
PollInitial(k, log) ==
  /\ sub[k].pc = "stream"
  /\ sub[k].initial # NoTask
  /\ Respond(log, Reply("event", sub[k].id, OwnerHash, 200, {sub[k].initial}))
  /\ sub' = [sub EXCEPT ![k].initial = NoTask, ![k].seen = sub[k].initial.status]
  /\ UNCHANGED <<tasks, abort_handles, progress_tx, workers, nspawned, ncreated, wispVars, zipVars, diskVars,
                 files, dirs, tasksJson, pz, rs, dl, hist>>

\* ProgressStream::poll_next, lines 183-194: a received snapshot is sanitised and
\* sent; a lagged or closed channel ends the stream.
PollNext(k, log) ==
  /\ sub[k].pc = "stream"
  /\ sub[k].initial = NoTask
  /\ IF sub[k].lagged
       THEN sub' = [sub EXCEPT ![k] = IdleSub] /\ UNCHANGED resp
       ELSE IF sub[k].q # <<>>
         THEN /\ Respond(log, Reply("event", sub[k].id, OwnerHash, 200,
                                    {Sanitized(Head(sub[k].q).snap)}))
              /\ sub' = [sub EXCEPT ![k].q = Tail(@),
                                    ![k].seen = Head(sub[k].q).snap.status,
                                    ![k].last = Head(sub[k].q).ver]
         ELSE /\ progress_tx[sub[k].id] # sub[k].chan
              /\ sub' = [sub EXCEPT ![k] = IdleSub]
              /\ UNCHANGED resp
  /\ UNCHANGED <<tasks, abort_handles, progress_tx, workers, nspawned, ncreated, wispVars, zipVars, diskVars,
                 files, dirs, tasksJson, pz, rs, dl, hist>>

\* The client closes the event stream: the receiver is dropped.
Disconnect(k) ==
  /\ sub[k].pc = "stream"
  /\ sub' = [sub EXCEPT ![k] = IdleSub]
  /\ UNCHANGED <<tasks, abort_handles, progress_tx, workers, nspawned, ncreated, wispVars, zipVars, diskVars,
                 files, dirs, tasksJson, pz, rs, dl, resp, hist>>

\* -------------------------------------------------------------- Wisp tunnel
\* asspp_core::wisp: the frames the server builds.  conn is not on the wire: it is
\* the CONNECT (0: none) on whose behalf the frame was built.
make_continue_packet(sid, buffer, conn) ==
  [type |-> "CONTINUE", sid |-> sid, arg |-> buffer, conn |-> conn]
make_close_packet(sid, reason, conn) ==
  [type |-> "CLOSE", sid |-> sid, arg |-> reason, conn |-> conn]
make_data_packet(sid, conn) ==
  [type |-> "DATA", sid |-> sid, arg |-> "bytes", conn |-> conn]

\* The CONNECT payloads: one parse_connect rejects, one validate_wisp_target
\* refuses, one that is dialled.
ConnectKinds == {"unparsable", "refused", "public"}
parse_connect(kind) == kind # "unparsable"
validate_wisp_target(kind) == kind = "public"

\* A frame is handed to the WebSocket: send_tx.send (standalone, forwarded in order
\* by the sender task until it is aborted) or ws.send_with_bytes (worker).
Emit(f) == ws_out' = IF wisp.pc = "open" THEN Append(ws_out, f) ELSE ws_out

SetC(c, C) == conns' = [conns EXCEPT ![c] = C]

\* The upgrade is accepted.  worker, fetch lines 43-50: CONTINUE(0, 128) is sent;
\* standalone, handle_wisp lines 19-36: the sender task is spawned.
Accept ==
  /\ wisp.pc = "new"
  /\ wisp' = [wisp EXCEPT !.pc = "open"]
  /\ ws_out' = IF server = "worker"
                 THEN Append(ws_out, make_continue_packet(0, 128, 0))
                 ELSE ws_out
  /\ UNCHANGED <<server, streams, conns, taskVars, zipVars, diskVars>>

\* A client frame is taken from the WebSocket.
Taken == [wisp EXCEPT !.nin = @ + 1]
CanTake == wisp.pc = "open" /\ wisp.wait = 0 /\ wisp.nin < MaxFrames

\* CONNECT.  standalone, lines 52-89: CONTINUE is sent, the entry inserted and
\* handle_tcp_stream spawned.  worker, handle_connect lines 107-193: connect() is
\* called, and on success the entry inserted, CONTINUE sent and read_relay spawned.
RecvConnect(sid, kind) ==
  LET c == wisp.nconn + 1
      C == [NoConn EXCEPT !.sid = sid, !.kind = kind]
  IN
  /\ CanTake
  /\ wisp.nconn < MaxConnects
  /\ wisp' = [Taken EXCEPT !.nconn = c]
  /\ IF ~parse_connect(kind)
       THEN /\ Emit(make_close_packet(sid, "InvalidData", c))
            /\ SetC(c, [C EXCEPT !.h = "done"])
            /\ UNCHANGED streams
     ELSE IF ~validate_wisp_target(kind)
       THEN /\ Emit(make_close_packet(sid, "Forbidden", c))
            /\ SetC(c, [C EXCEPT !.h = "done"])
            /\ UNCHANGED streams
     ELSE IF server = "standalone"
       THEN /\ Emit(make_continue_packet(sid, 128, c))
            /\ streams' = [streams EXCEPT ![sid] = c]
            /\ SetC(c, [C EXCEPT !.h = "dial", !.dial = "pending"])
     ELSE \/ /\ Emit(make_close_packet(sid, "ServerRefused", c))
             /\ SetC(c, [C EXCEPT !.h = "done", !.dial = "failed"])
             /\ UNCHANGED streams
          \/ /\ streams' = [streams EXCEPT ![sid] = c]
             /\ Emit(make_continue_packet(sid, 128, c))
             /\ SetC(c, [C EXCEPT !.h = "done", !.dial = "ok", !.rd = TRUE, !.wr = TRUE,
                                  !.r = "getReader"])
  /\ UNCHANGED <<server, taskVars, zipVars, diskVars>>

\* The receiver of the forward queue of a connection was dropped: its write task
\* has ended, or handle_tcp_stream returned after a failed dial.
ReceiverGone(C) == C.w = "done" \/ C.dial = "failed"

\* DATA.  standalone, lines 91-96: under the lock of the map, the payload is sent
\* to the queue of the entry; the send fails when the receiver is gone and waits
\* (wait: the connection waited on) while the queue is full.  worker, handle_data
\* lines 196-214: it is written through the writer.
RecvData(sid) ==
  LET c == streams[sid] IN
  /\ CanTake
  /\ IF server = "worker" \/ c = 0 \/ ReceiverGone(conns[c])
       THEN wisp' = Taken /\ UNCHANGED conns
     ELSE IF conns[c].inq < QueueCap
       THEN wisp' = Taken /\ conns' = [conns EXCEPT ![c].inq = @ + 1]
     ELSE wisp' = [Taken EXCEPT !.wait = c] /\ UNCHANGED conns
  /\ UNCHANGED <<server, ws_out, streams, taskVars, zipVars, diskVars>>

\* standalone, line 94: the send that waited completes, with the payload queued
\* or with an error; the lock is released.
SendReady ==
  LET c == wisp.wait IN
  /\ c # 0
  /\ \/ /\ ReceiverGone(conns[c])
        /\ UNCHANGED conns
     \/ /\ ~ReceiverGone(conns[c])
        /\ conns[c].inq < QueueCap
        /\ conns' = [conns EXCEPT ![c].inq = @ + 1]
  /\ wisp' = [wisp EXCEPT !.wait = 0]
  /\ UNCHANGED <<server, ws_out, streams, taskVars, zipVars, diskVars>>

\* CLOSE.  standalone, lines 98-101: the entry is removed.  worker, handle_close
\* lines 217-222: the entry is removed and its writable side closed.
\* (closed records that the client closed the stream of this connection.)
RecvClose(sid) ==
  /\ CanTake
  /\ wisp' = Taken
  /\ streams' = [streams EXCEPT ![sid] = 0]
  /\ conns' = [c \in Conns |->
                 IF streams[sid] # c THEN conns[c]
                 ELSE [conns[c] EXCEPT
                         !.closed = TRUE,
                         !.wr = IF server = "worker" THEN FALSE ELSE @]]
  /\ UNCHANGED <<server, ws_out, taskVars, zipVars, diskVars>>

\* A server that answers what it cannot handle by ending the session.
DropEndsSession ==
  /\ CanTake
  /\ wisp' = [Taken EXCEPT !.pc = "closed"]
  /\ UNCHANGED <<server, ws_out, streams, conns, taskVars, zipVars, diskVars>>

\* CONTINUE, a frame parse_packet rejects, or a message that is not binary: dropped.
RecvOther ==
  /\ CanTake
  /\ wisp' = Taken
  /\ UNCHANGED <<server, ws_out, streams, conns, taskVars, zipVars, diskVars>>

\* The WebSocket closes.  standalone, lines 109-111: the map is cleared and the
\* sender aborted.  worker, websocket_close lines 89-102: every writer is closed.
WsClose ==
  /\ wisp.pc = "open"
  /\ wisp.wait = 0
  /\ wisp' = [wisp EXCEPT !.pc = "closed"]
  /\ streams' = [s \in StreamSlots |-> 0]
  /\ conns' = [c \in Conns |->
                 IF server = "worker" /\ conns[c].sid \in StreamIds
                    /\ streams[conns[c].sid] = c
                   THEN [conns[c] EXCEPT !.wr = FALSE] ELSE conns[c]]
  /\ UNCHANGED <<server, ws_out, taskVars, zipVars, diskVars>>

\* standalone, handle_tcp_stream lines 121-134: the dial ends.  On failure
\* CLOSE(ServerRefused) is sent; on success the two relay tasks are spawned.
TcpConnect(c) ==
  LET C == conns[c] IN
  /\ server = "standalone"
  /\ C.h = "dial"
  /\ \/ /\ Emit(make_close_packet(C.sid, "ServerRefused", c))
        /\ SetC(c, [C EXCEPT !.dial = "failed", !.h = "remove"])
     \/ /\ SetC(c, [C EXCEPT !.dial = "ok", !.h = "select", !.rd = TRUE, !.wr = TRUE,
                             !.r = "read", !.w = "recv"])
        /\ UNCHANGED ws_out
  /\ UNCHANGED <<server, streams, wisp, taskVars, zipVars, diskVars>>

\* standalone, read_task lines 141-148: bytes were read and are sent as DATA; the
\* loop is left when the send fails.
ReadTaskData(c) ==
  LET C == conns[c] IN
  /\ server = "standalone"
  /\ C.r = "read"
  /\ C.reads < MaxReads
  /\ Emit(make_data_packet(C.sid, c))
  /\ SetC(c, [C EXCEPT !.reads = @ + 1, !.r = IF wisp.pc = "open" THEN "read" ELSE "close"])
  /\ UNCHANGED <<server, streams, wisp, taskVars, zipVars, diskVars>>

\* standalone, read_task lines 142 and 149: end-of-file or a read error.
ReadTaskEnd(c, how) ==
  LET C == conns[c] IN
  /\ server = "standalone"
  /\ C.r = "read"
  /\ SetC(c, [C EXCEPT !.r = "close", !.ended = how])
  /\ UNCHANGED <<server, ws_out, streams, wisp, taskVars, zipVars, diskVars>>

\* standalone, read_task lines 152-155: CLOSE is sent and the read half dropped.
ReadTaskClose(c) ==
  LET C == conns[c] IN
  /\ server = "standalone"
  /\ C.r = "close"
  /\ Emit(make_close_packet(C.sid, "Voluntary", c))
  /\ SetC(c, [C EXCEPT !.r = "done", !.rd = FALSE])
  /\ UNCHANGED <<server, streams, wisp, taskVars, zipVars, diskVars>>

\* standalone, write_task lines 159-163: a queued payload is written, or the write
\* fails and the task ends, dropping the write half.
WriteTaskData(c) ==
  LET C == conns[c] IN
  /\ server = "standalone"
  /\ C.w = "recv"
  /\ C.inq > 0
  /\ \/ SetC(c, [C EXCEPT !.inq = @ - 1])
     \/ SetC(c, [C EXCEPT !.inq = 0, !.w = "done", !.wr = FALSE])
  /\ UNCHANGED <<server, ws_out, streams, wisp, taskVars, zipVars, diskVars>>

\* standalone, write_task line 160: the peer stops accepting bytes, and write_all
\* on a payload taken from the queue does not return any more.
PeerStalls(c) ==
  LET C == conns[c] IN
  /\ server = "standalone"
  /\ C.w = "recv"
  /\ C.inq > 0
  /\ SetC(c, [C EXCEPT !.inq = @ - 1, !.w = "stuck"])
  /\ UNCHANGED <<server, ws_out, streams, wisp, taskVars, zipVars, diskVars>>

\* standalone, write_task line 159: recv returns None once the map no longer
\* holds the sender of this connection; the write half is dropped.
WriteTaskEnd(c) ==
  LET C == conns[c] IN
  /\ server = "standalone"
  /\ C.w = "recv"
  /\ C.inq = 0
  /\ streams[C.sid] # c
  /\ SetC(c, [C EXCEPT !.w = "done", !.wr = FALSE])
  /\ UNCHANGED <<server, ws_out, streams, wisp, taskVars, zipVars, diskVars>>

\* standalone, handle_tcp_stream lines 167-170: one of the two tasks has finished.
TcpSelect(c) ==
  LET C == conns[c] IN
  /\ server = "standalone"
  /\ C.h = "select"
  /\ C.r = "done" \/ C.w = "done"
  /\ SetC(c, [C EXCEPT !.h = "remove"])
  /\ UNCHANGED <<server, ws_out, streams, wisp, taskVars, zipVars, diskVars>>

\* standalone, handle_tcp_stream lines 129 and 172: once the lock of the map is
\* free, whatever entry the stream id has is removed.
TcpRemove(c) ==
  LET C == conns[c] IN
  /\ server = "standalone"
  /\ C.h = "remove"
  /\ wisp.wait = 0
  /\ streams' = [streams EXCEPT ![C.sid] = 0]
  /\ SetC(c, [C EXCEPT !.h = "done"])
  /\ UNCHANGED <<server, ws_out, wisp, taskVars, zipVars, diskVars>>

\* worker, read_relay lines 227-236: the reader is taken, or CLOSE(NetworkError)
\* is sent.
RelayGetReader(c) ==
  LET C == conns[c] IN
  /\ server = "worker"
  /\ C.r = "getReader"
  /\ \/ /\ SetC(c, [C EXCEPT !.r = "read"])
        /\ UNCHANGED ws_out
     \/ /\ Emit(make_close_packet(C.sid, "NetworkError", c))
        /\ SetC(c, [C EXCEPT !.r = "done"])
  /\ UNCHANGED <<server, streams, wisp, taskVars, zipVars, diskVars>>

\* worker, read_relay lines 262-278: bytes were read and are sent as DATA; the
\* loop is left when the send fails.
RelayData(c) ==
  LET C == conns[c] IN
  /\ server = "worker"
  /\ C.r = "read"
  /\ C.reads < MaxReads
  /\ Emit(make_data_packet(C.sid, c))
  /\ SetC(c, [C EXCEPT !.reads = @ + 1, !.r = IF wisp.pc = "open" THEN "read" ELSE "done"])
  /\ UNCHANGED <<server, streams, wisp, taskVars, zipVars, diskVars>>

\* worker, read_relay lines 239-260: a read error sends CLOSE(NetworkError), the
\* end of the stream CLOSE(Voluntary); the relay returns.
RelayEnd(c, how) ==
  LET C == conns[c] IN
  /\ server = "worker"
  /\ C.r = "read"
  /\ Emit(make_close_packet(C.sid, IF how = "eof" THEN "Voluntary" ELSE "NetworkError", c))
  /\ SetC(c, [C EXCEPT !.r = "done", !.ended = how, !.rd = FALSE])
  /\ UNCHANGED <<server, streams, wisp, taskVars, zipVars, diskVars>>

ReadEnds == {"eof", "err"}

\* ------------------------------------------------------------ archive rewrite
\* Archive paths: Payload/<bundle>.app/<file>, or <file> at the top level
\* (bundle "none").
Path(bundle, file) == [bundle |-> bundle, file |-> file]
Bundles == {"A", "B"}
ManifestPath(b) == Path(b, "SC_Info/Manifest.plist")
InfoPath(b) == Path(b, "Info.plist")
SinfPath(b, exec) == Path(b, IF exec = "A" THEN "SC_Info/A.sinf" ELSE "SC_Info/B.sinf")
MetadataPath == Path("none", "iTunesMetadata.plist")

\* Entry bodies: plain bytes, a property list (with or without a SinfPaths array,
\* with or without CFBundleExecutable), or the n-th sinf / the metadata.
Body(kind, hasPaths, paths, exec, n) ==
  [kind |-> kind, hasPaths |-> hasPaths, paths |-> paths, exec |-> exec, n |-> n]
Bytes == Body("bytes", FALSE, <<>>, "none", 0)
Plists ==
  { Bytes,
    Body("plist", FALSE, <<>>, "none", 0),
    Body("plist", FALSE, <<>>, "A", 0),
    Body("plist", TRUE, <<SinfPath("A", "A")>>, "none", 0),
    Body("plist", TRUE, <<SinfPath("A", "A"), SinfPath("A", "B")>>, "A", 0) }
Entry(name, body, method) == [name |-> name, body |-> body, method |-> method]

\* The entries an IPA may hold.
InputEntries ==
  { Entry(Path("A", "A"), Bytes, "Deflated"),
    Entry(SinfPath("A", "A"), Bytes, "Deflated"),
    Entry(Path("none", "META-INF/x"), Bytes, "Stored") }
  \cup { Entry(ManifestPath(b), p, "Deflated") : b \in Bundles, p \in Plists }
  \cup { Entry(InfoPath(b), p, "Deflated") : b \in Bundles, p \in Plists }

\* The archives: up to MaxEntries entries with distinct paths.
Archives ==
  { a \in UNION { [1 .. n -> InputEntries] : n \in 1 .. MaxEntries } :
      \A i, j \in DOMAIN a : a[i].name = a[j].name => i = j }

\* asspp_core::sinf: the predicates on entry names.
extract_bundle_name(name) == name.bundle
is_manifest_plist(name) == name.bundle # "none" /\ name.file = "SC_Info/Manifest.plist"
is_info_plist(name) == name.bundle # "none" /\ name.file = "Info.plist"

\* for i in 0..zip.len(): the first of the indices S the loop stops at, or 0.
FirstIndex(S) == IF S = {} THEN 0 ELSE CHOOSE i \in S : \A j \in S : i <= j

\* find_bundle_name, lines 76-84: the bundle of the first entry that has one.
find_bundle_name(es) ==
  LET i == FirstIndex({j \in DOMAIN es : extract_bundle_name(es[j].name) # "none"})
  IN IF i = 0 THEN "none" ELSE extract_bundle_name(es[i].name)

\* plist_util::parse_plist with get_string_array / get_string.
get_string_array(body) == body.kind = "plist" /\ body.hasPaths
get_string(body) == body.kind = "plist" /\ body.exec # "none"

NoSource == [kind |-> "none", paths |-> <<>>, exec |-> "none"]
ManifestSource(paths) == [kind |-> "Manifest", paths |-> paths, exec |-> "none"]
InfoSource(exec) == [kind |-> "Info", paths |-> <<>>, exec |-> exec]

\* find_injection_source, lines 86-128: the first entry is_manifest_plist accepts
\* is read and, if it holds SinfPaths, is the source; otherwise the first entry
\* is_info_plist accepts is read.  bundle_name is not used.
find_injection_source(es, bundle_name) ==
  LET m == FirstIndex({j \in DOMAIN es : is_manifest_plist(es[j].name)})
      i == FirstIndex({j \in DOMAIN es : is_info_plist(es[j].name)})
  IN IF m # 0 /\ get_string_array(es[m].body) THEN ManifestSource(es[m].body.paths)
     ELSE IF i # 0 /\ get_string(es[i].body) THEN InfoSource(es[i].body.exec)
     ELSE NoSource

\* asspp_core::sinf::plan_injection: the sinfs paired with SinfPaths, or the first
\* sinf at the executable's path; then the metadata, if any.
Min(a, b) == IF a < b THEN a ELSE b
plan_injection(bundle_name, source, nsinfs, metadata) ==
  LET sinfs == IF source.kind = "Manifest"
                 THEN [n \in 1 .. Min(nsinfs, Len(source.paths)) |->
                         [path |-> source.paths[n], data |-> Body("sinf", FALSE, <<>>, "none", n)]]
               ELSE IF nsinfs > 0
                 THEN <<[path |-> SinfPath(bundle_name, source.exec),
                         data |-> Body("sinf", FALSE, <<>>, "none", 1)]>>
               ELSE <<>>
  IN IF metadata
       THEN Append(sinfs, [path |-> MetadataPath, data |-> Body("metadata", FALSE, <<>>, "none", 0)])
       ELSE sinfs

NoTmp == [exists |-> FALSE, entries |-> <<>>]

\* inject_sync is called on an IPA with nsinfs sinfs and, perhaps, metadata.
Injection(a, nsinfs, metadata) ==
  [pc |-> "open", ipa |-> a, orig |-> a, tmp |-> NoTmp, entries |-> <<>>,
   nsinfs |-> nsinfs, metadata |-> metadata, bundle |-> "none", source |-> NoSource,
   plan |-> <<>>, i |-> 0, result |-> "none"]

Returned(z, result) == [z EXCEPT !.pc = "done", !.result = result]

ZipUnchanged == UNCHANGED <<taskVars, wispVars, diskVars>>

\* Lines 24-25: the IPA is opened and its directory read, or that fails.
OpenIpa ==
  /\ zip.pc = "open"
  /\ \/ zip' = [zip EXCEPT !.pc = "bundle", !.entries = zip.ipa]
     \/ zip' = Returned(zip, "Err")
  /\ ZipUnchanged

\* Line 28: find_bundle_name.
FindBundleName ==
  /\ zip.pc = "bundle"
  /\ zip' = IF find_bundle_name(zip.entries) = "none" THEN Returned(zip, "Err")
            ELSE [zip EXCEPT !.pc = "source", !.bundle = find_bundle_name(zip.entries)]
  /\ ZipUnchanged

\* Line 31: find_injection_source; reading an entry may fail.
FindInjectionSource ==
  /\ zip.pc = "source"
  /\ \/ zip' = IF find_injection_source(zip.entries, zip.bundle) = NoSource
                 THEN Returned(zip, "Err")
               ELSE [zip EXCEPT !.pc = "plan",
                                !.source = find_injection_source(zip.entries, zip.bundle)]
     \/ zip' = Returned(zip, "Err")
  /\ ZipUnchanged

\* Lines 34-68: the sinfs and the metadata are decoded (or one is not base64) and
\* the plan is made; with an empty plan inject_sync returns Ok.
PlanInjection ==
  LET plan == plan_injection(zip.bundle, zip.source, zip.nsinfs, zip.metadata) IN
  /\ zip.pc = "plan"
  /\ \/ zip' = IF plan = <<>> THEN Returned(zip, "Ok")
               ELSE [zip EXCEPT !.pc = "create", !.plan = plan]
     \/ /\ zip.nsinfs > 0 \/ zip.metadata
        /\ zip' = Returned(zip, "Err")
  /\ ZipUnchanged

\* rewrite_zip, line 138: File::create of <ipa>.tmp.
CreateTemp ==
  /\ zip.pc = "create"
  /\ \/ zip' = [zip EXCEPT !.pc = "copy", !.i = 1, !.tmp = [exists |-> TRUE, entries |-> <<>>]]
     \/ zip' = Returned(zip, "Err")
  /\ ZipUnchanged

\* Lines 141-151: the entries whose path the plan writes are skipped.
inject_paths(plan) == {plan[j].path : j \in DOMAIN plan}
SkipsNothing(name, plan) == FALSE
Skipped(name, plan) == name \in inject_paths(plan)

\* Lines 145-156: the next entry is skipped, or copied raw, or the copy fails.
CopyEntry ==
  LET e == zip.entries[zip.i]
      next == IF zip.i = Len(zip.entries) THEN [zip EXCEPT !.pc = "write", !.i = 1]
              ELSE [zip EXCEPT !.i = @ + 1]
  IN
  /\ zip.pc = "copy"
  /\ IF Skipped(e.name, zip.plan)
       THEN zip' = next
       ELSE \/ zip' = [next EXCEPT !.tmp.entries = Append(@, e)]
            \/ zip' = Returned(zip, "Err")
  /\ ZipUnchanged

\* Lines 159-169: the next planned file is written uncompressed, or that fails.
WritePlanned ==
  LET f == zip.plan[zip.i]
      next == IF zip.i = Len(zip.plan) THEN [zip EXCEPT !.pc = "finish", !.i = 0]
              ELSE [zip EXCEPT !.i = @ + 1]
  IN
  /\ zip.pc = "write"
  /\ \/ zip' = [next EXCEPT !.tmp.entries = Append(@, Entry(f.path, f.data, "Stored"))]
     \/ zip' = Returned(zip, "Err")
  /\ ZipUnchanged

\* Line 171: the archive is finished, or that fails.
FinishZip ==
  /\ zip.pc = "finish"
  /\ \/ zip' = [zip EXCEPT !.pc = "rename"]
     \/ zip' = Returned(zip, "Err")
  /\ ZipUnchanged

\* Line 175: the temporary file is renamed over the IPA, or that fails.
RenameTemp ==
  /\ zip.pc = "rename"
  /\ \/ zip' = [Returned(zip, "Ok") EXCEPT !.ipa = zip.tmp.entries, !.tmp = NoTmp]
     \/ zip' = Returned(zip, "Err")
  /\ ZipUnchanged

\* ------------------------------------------------------------ specifications
\* The download engine: create, pause, resume and delete requests, one in flight at
\* a time, and the workers of MaxWorkers episodes.
Next ==
  \/ CreateDownload(MaxWorkers, FALSE)
  \/ \E id \in Ids, h \in Hashes : PauseCheck(id, h, TRUE, FALSE)
  \/ PauseTask1(FALSE)
  \/ PauseTask2
  \/ PauseTask3
  \/ PauseRespond(FALSE)
  \/ \E id \in Ids, h \in Hashes : ResumeCheck(id, h, TRUE, FALSE)
  \/ ResumeTask(MaxWorkers, FALSE)
  \/ ResumeRespond(FALSE)
  \/ \E id \in Ids, h \in Hashes : DeleteCheck(id, h, TRUE, FALSE)
  \/ DeleteTask1
  \/ DeleteTask2
  \/ DeleteTask3
  \/ DeleteTask4
  \/ DeleteTask5(FALSE)
  \/ \E w \in Workers : WorkerStep(w, DeclaredLengths)

Spec == Init /\ [][Next]_vars

\* The HTTP interface as one client sees it: every handler with its response and
\* the event stream.  The client sends one request at a time, resumes a task once
\* the worker it paused has returned, and reads the event stream as fast as the
\* events arrive; each response is observed (resp) and then sent.
WorkersIdle == \A w \in Workers : ~Active(w)
Drained ==
  \A k \in Subs : sub[k].pc \in {"idle", "stream"} /\ sub[k].initial = NoTask /\ sub[k].q = <<>>

SendResponse ==
  /\ resp # NoResp
  /\ resp' = NoResp
  /\ UNCHANGED <<tasks, abort_handles, progress_tx, workers, nspawned, ncreated, wispVars, zipVars, diskVars,
                 files, dirs, tasksJson, pz, rs, dl, sub, hist>>

\* The client may send its next request; the event stream may go on.
Ready == resp = NoResp /\ Drained
Open == resp = NoResp

NextApi ==
  \/ Ready /\ CreateDownload(MaxWorkers, TRUE)
  \/ Ready /\ \E id \in Ids, h \in Hashes : GetDownload(id, h, TRUE)
  \/ Ready /\ \E hs \in SUBSET {OwnerHash, OtherHash} : ListDownloads(hs, TRUE)
  \/ Ready /\ \E id \in Ids, h \in Hashes : PauseCheck(id, h, TRUE, TRUE)
  \/ Ready /\ PauseTask1(TRUE)
  \/ Ready /\ PauseTask2
  \/ Ready /\ PauseTask3
  \/ Ready /\ PauseRespond(TRUE)
  \/ Ready /\ \E id \in Ids, h \in Hashes : WorkersIdle /\ ResumeCheck(id, h, TRUE, TRUE)
  \/ Ready /\ ResumeTask(MaxWorkers, TRUE)
  \/ Ready /\ ResumeRespond(TRUE)
  \/ Ready /\ \E id \in Ids, h \in Hashes : DeleteCheck(id, h, TRUE, TRUE)
  \/ Ready /\ DeleteTask1
  \/ Ready /\ DeleteTask2
  \/ Ready /\ DeleteTask3
  \/ Ready /\ DeleteTask4
  \/ Ready /\ DeleteTask5(TRUE)
  \/ Ready /\ \E id \in Ids, h \in Hashes : DownloadFile(id, h, TRUE)
  \/ Ready /\ \E id \in Ids, h \in Hashes : DeletePackage(id, h, TRUE)
  \/ Ready /\ \E w \in Workers : Register(w)
  \/ Ready /\ \E w \in Workers : SetDownloading(w)
  \/ Ready /\ \E w \in Workers : Snapshot(w)
  \/ Ready /\ \E w \in Workers : MakeDir(w)
  \/ Ready /\ \E w \in Workers : StorePath(w)
  \/ Ready /\ \E w \in Workers : HttpRequest(w, DeclaredLengths)
  \/ Ready /\ \E w \in Workers : IsAborted(w)
  \/ Ready /\ \E w \in Workers : CreateFile(w)
  \/ Ready /\ \E w \in Workers : TakeChunk(w)
  \/ Ready /\ \E w \in Workers : StreamError(w)
  \/ Ready /\ \E w \in Workers : StreamEnd(w)
  \/ Ready /\ \E w \in Workers : Aborted(w)
  \/ Ready /\ \E w \in Workers : Flush(w)
  \/ Ready /\ \E w \in Workers : RemoveHandle(w)
  \/ Ready /\ \E w \in Workers : SetInjecting(w)
  \/ Ready /\ \E w \in Workers : Inject(w)
  \/ Ready /\ \E w \in Workers : SetCompleted(w)
  \/ Ready /\ \E w \in Workers : Persist(w)
  \/ Ready /\ \E w \in Workers : FailRemoveHandle(w)
  \/ Ready /\ \E w \in Workers : FailTask(w)
  \/ Open /\ \E id \in Ids, h \in Hashes : ProgressCheck(1, id, h, TRUE)
  \/ Open /\ ProgressLookup(1)
  \/ Open /\ ProgressInsert(1)
  \/ Open /\ PollInitial(1, TRUE)
  \/ Open /\ PollNext(1, TRUE)
  \/ Open /\ Disconnect(1)
  \/ SendResponse

SpecApi == InitApi /\ [][NextApi]_vars

\* ------------------------------------------------------------------- claims
WorkersOf(id) == {w \in Workers : workers[w].id = id /\ Active(w)}

\* C1 (as stated): at every instant at most one worker is active for a task id,
\* also when a resume arrives before the aborted worker has returned.
OneWorkerPerTask == \A id \in Ids : Cardinality(WorkersOf(id)) <= 1

\* C2 (as stated): once pause_task has returned true, a Paused status stays Paused
\* until resume_task returns true, the task fails or it is deleted.
PausedStaysPaused ==
  [][\A id \in Ids :
       (hist[id].paused /\ hist'[id].paused /\ tasks[id].status = "Paused")
         => tasks'[id].status = "Paused"]_vars

\* C3 (as stated): when the worker of a resumed episode has read its stream to the
\* end, the staged file holds exactly the bytes of that episode's response.
ResumedFileIsResponse ==
  \A w \in Workers :
    (workers[w].resumed /\ workers[w].pc = "flush" /\ tasks[workers[w].id] # NoTask)
      => files[workers[w].id].data = Response(w)

\* C4 (as stated): a record that is Completed or Failed keeps its status until it
\* is removed.
TerminalIsFinal ==
  [][\A id \in Ids :
       tasks[id].status \in {"Completed", "Failed"}
         => (tasks'[id] = NoTask \/ tasks'[id].status = tasks[id].status)]_vars

\* C5 (as stated): once delete_task has finished and the workers of the id have
\* returned, no staged file of the id exists.
NoFileAfterDelete ==
  \A id \in Ids :
    (tasks[id] = NoTask /\ dl.pc = "idle" /\ WorkersOf(id) = {})
      => files[id] = NoFile

\* C6 (as stated): when pause_task has set the record to Paused, the abort signal
\* of the worker that is running for the id (one that is not on its way out through
\* fail_task) has been sent.
PauseSignalsWorker ==
  pz.pc = "p3" =>
    \/ pz.sent
    \/ \A w \in WorkersOf(pz.id) : workers[w].pc \in {"isAborted", "fail1", "fail2"}

\* C7: resume_task returns true iff the record is Paused; a true call spawns
\* exactly one new worker and changes nothing else, a false call changes nothing;
\* the worker of a resumed episode requests from byte zero, truncates the staged
\* file when it creates it, and writes to it only after that.
ResumeContract ==
  [][/\ (rs.pc = "r1" /\ rs'.pc # "r1") =>
          IF tasks[rs.id].status = "Paused"
            THEN /\ rs'.pc = "ret"
                 /\ nspawned' = nspawned + 1
                 /\ workers[nspawned'].pc = "idle"
                 /\ workers' = [workers EXCEPT ![nspawned'] =
                                  [IdleWorker EXCEPT !.pc = "start", !.id = rs.id,
                                                     !.resumed = TRUE]]
                 /\ UNCHANGED <<tasks, abort_handles, progress_tx, files, dirs,
                                tasksJson, sub>>
            ELSE /\ rs'.pc = "idle"
                 /\ UNCHANGED <<tasks, abort_handles, progress_tx, workers, nspawned,
                                files, dirs, tasksJson, sub>>
     /\ \A w \in Workers :
          workers[w].resumed =>
            /\ (workers[w].pc = "http" /\ workers'[w].pc = "create")
                  => workers'[w].got = 0
            /\ (workers[w].pc = "create" /\ workers'[w].pc = "loop")
                  => /\ files'[workers[w].id].data = <<>>
                     /\ workers'[w].fd = files'[workers[w].id].ino
                     /\ workers'[w].got = 0
            /\ (workers'[w] # workers[w] /\ files' # files)
                  => workers[w].pc \in {"create", "loop", "inject"}]_vars

\* C7, witness: the worker of a resumed episode has written a chunk.
ResumedWorkerWrote ==
  \E w \in Workers : workers[w].resumed /\ workers[w].pc = "loop" /\ workers[w].got > 0

\* C8: every Completed record, set by a worker or restored from tasks.json, has an
\* empty download URL, no sinfs and no iTunes metadata.
CompletedHasNoSecrets ==
  \A id \in Ids :
    tasks[id].status = "Completed"
      => /\ tasks[id].download_url = ""
         /\ tasks[id].sinfs = <<>>
         /\ tasks[id].itunes_metadata = "None"

\* C8, witness: task 0 was restored from a tasks.json that held its secrets, and
\* task 1, created with sinfs, was completed by its worker after the injection.
CompletedBothWays ==
  /\ tasks[0].status = "Completed"
  /\ \E it \in ItemsOf(tasksJson) : HasSecrets(it)
  /\ tasks[1].status = "Completed"
  /\ files[1].ino > MaxWorkers

\* C9: every task snapshot in a response body or a server-sent event lacks the
\* download URL, the sinfs and the iTunes metadata, and carries file_exists.
SnapshotsAreSanitized ==
  resp # NoResp =>
    \A b \in resp.body :
      /\ DOMAIN b \cap {"download_url", "sinfs", "itunes_metadata"} = {}
      /\ "file_exists" \in DOMAIN b

\* C9, witness: an event carries the snapshot of a record that holds secrets.
EventOfSecretTask ==
  /\ resp.kind = "event"
  /\ \E b \in resp.body : HasSecrets(tasks[b.id])

\* The handlers C10 is about, and the step at which each checks the request.
Checked == {"get", "progress", "pause", "resume", "delete", "file", "package"}
Arrives(kind) ==
  CASE kind = "pause" -> pz.pc = "idle"
    [] kind = "resume" -> rs.pc = "idle"
    [] kind = "delete" -> dl.pc = "idle"
    [] OTHER -> TRUE

\* The rejection C10 states (0: none): a hash of less than 8 characters, else an
\* unknown id, else a hash that is not the task's.
Rejection(id, h, known) ==
  IF Len(h) < 8 THEN 400
  ELSE IF ~known THEN 404
  ELSE IF tasks[id].account_hash # h THEN 403
  ELSE 0

Rejects(r, known) ==
  Rejection(r.id, r.hash, known) # 0 =>
    /\ r.status = Rejection(r.id, r.hash, known)
    /\ UNCHANGED <<tasks, abort_handles, files, dirs, tasksJson>>

\* C10 (as stated): each of the seven handlers answers 400 to a short hash, else 404
\* to an id that has no task, else 403 to a hash that is not the task's, and
\* changes nothing when it does.
RejectionOrder ==
  [][(resp' # NoResp /\ resp'.kind \in Checked /\ Arrives(resp'.kind))
       => Rejects(resp', tasks[resp'.id] # NoTask)]_vars

\* C10 (amended): the same, where for the package file download an id is unknown
\* unless a Completed task has it.
RejectionOrderCompleted ==
  [][(resp' # NoResp /\ resp'.kind \in Checked /\ Arrives(resp'.kind))
       => Rejects(resp', IF resp'.kind = "file"
                           THEN tasks[resp'.id].status = "Completed"
                           ELSE tasks[resp'.id] # NoTask)]_vars

\* C10, witness: the package file download answered 404 to a hash that is not the
\* hash of the task, which is not Completed.
FileOfUnfinishedTask ==
  /\ resp.kind = "file"
  /\ resp.status = 404
  /\ tasks[resp.id] # NoTask
  /\ tasks[resp.id].account_hash # resp.hash
  /\ Len(resp.hash) >= 8

\* A tunnel is being accepted by either server.
InitWisp ==
  /\ Startup({}, FALSE, FALSE)
  /\ \E srv \in {"standalone", "worker"} : NoTunnel(srv, "new")
  /\ NoInjection
  /\ NoSweep /\ NoConfig

NextWisp ==
  \/ Accept
  \/ \E sid \in StreamIds, kind \in ConnectKinds : RecvConnect(sid, kind)
  \/ \E sid \in StreamIds : RecvData(sid)
  \/ \E sid \in StreamIds : RecvClose(sid)
  \/ RecvOther
  \/ SendReady
  \/ WsClose
  \/ \E c \in Conns : TcpConnect(c)
  \/ \E c \in Conns : ReadTaskData(c)
  \/ \E c \in Conns, how \in ReadEnds : ReadTaskEnd(c, how)
  \/ \E c \in Conns : ReadTaskClose(c)
  \/ \E c \in Conns : WriteTaskData(c)
  \/ \E c \in Conns : WriteTaskEnd(c)
  \/ \E c \in Conns : TcpSelect(c)
  \/ \E c \in Conns : TcpRemove(c)
  \/ \E c \in Conns : RelayGetReader(c)
  \/ \E c \in Conns : RelayData(c)
  \/ \E c \in Conns, how \in ReadEnds : RelayEnd(c, how)

SpecWisp == InitWisp /\ [][NextWisp]_vars
\* The event streams: a task is created and may be paused while a client
\* subscribes to its events and stays connected.
InitSse == Startup({}, FALSE, TRUE) /\ NoTunnel("standalone", "none") /\ NoInjection
           /\ NoSweep /\ NoConfig

NextSse ==
  \/ CreateDownload(1, FALSE)
  \/ \E id \in Ids : PauseCheck(id, OwnerHash, TRUE, FALSE)
  \/ PauseTask1(FALSE)
  \/ PauseTask2
  \/ PauseTask3
  \/ PauseRespond(FALSE)
  \/ \E w \in Workers : WorkerStep(w, {Upstream(MaxChunks, MaxChunks)})
  \/ \E id \in Ids : ProgressCheck(1, id, OwnerHash, FALSE)
  \/ ProgressLookup(1)
  \/ ProgressInsert(1)
  \/ PollInitial(1, FALSE)
  \/ PollNext(1, FALSE)

SpecSse == InitSse /\ [][NextSse]_vars

\* Several clients subscribe to the events of a task while it is downloaded;
\* nobody pauses or deletes it, so its worker is never aborted.
Unaborted(w) ==
  \/ Register(w) \/ SetDownloading(w) \/ Snapshot(w) \/ MakeDir(w) \/ StorePath(w)
  \/ HttpRequest(w, {Upstream(MaxChunks, MaxChunks)}) \/ IsAborted(w) \/ CreateFile(w) \/ TakeChunk(w)
  \/ StreamError(w) \/ StreamEnd(w) \/ Flush(w) \/ RemoveHandle(w) \/ SetInjecting(w)
  \/ Inject(w) \/ SetCompleted(w) \/ Persist(w) \/ FailRemoveHandle(w) \/ FailTask(w)

NextSubs ==
  \/ CreateDownload(1, FALSE)
  \/ \E w \in Workers : Unaborted(w)
  \/ \E k \in Subs, id \in Ids : ProgressCheck(k, id, OwnerHash, FALSE)
  \/ \E k \in Subs : ProgressLookup(k)
  \/ \E k \in Subs : ProgressInsert(k)
  \/ \E k \in Subs : PollInitial(k, FALSE)
  \/ \E k \in Subs : PollNext(k, FALSE)

SpecSubs == InitSse /\ [][NextSubs]_vars

\* inject_sync runs on an IPA, with some sinfs and perhaps metadata.
InitZip ==
  /\ Startup({}, FALSE, FALSE)
  /\ NoTunnel("standalone", "none")
  /\ \E a \in Archives, n \in 0 .. MaxSinfs, m \in BOOLEAN : zip = Injection(a, n, m)
  /\ NoSweep /\ NoConfig

NextZip ==
  \/ OpenIpa
  \/ FindBundleName
  \/ FindInjectionSource
  \/ PlanInjection
  \/ CreateTemp
  \/ CopyEntry
  \/ WritePlanned
  \/ FinishZip
  \/ RenameTemp

SpecZip == InitZip /\ [][NextZip]_vars

\* A CONNECT for the stream of connection c was accepted after c.
Reopened(c) ==
  \E d \in Conns : d > c /\ conns[d].sid = conns[c].sid /\ conns[d].dial # "none"

\* C11: once the client's CLOSE for a stream has been processed, the TCP
\* connection of the stream is closed in both directions and no frame of that
\* stream is sent any more, unless a later CONNECT for the stream was accepted.
ClosedStreamIsSilent ==
  [][\A c \in Conns :
       conns[c].closed /\ ~Reopened(c) =>
         /\ ~conns[c].rd /\ ~conns[c].wr
         /\ Len(ws_out') > Len(ws_out) => ws_out'[Len(ws_out')].conn # c]_vars

\* The frames that answer CONNECT c: its CONTINUE, or a CLOSE refusing it.
Answers(c) ==
  {i \in 1 .. Len(ws_out) :
     /\ ws_out[i].conn = c
     /\ \/ ws_out[i].type = "CONTINUE"
        \/ ws_out[i].type = "CLOSE"
           /\ ws_out[i].arg \in {"InvalidData", "Forbidden", "ServerRefused"}}

\* C12: a CONNECT is answered at most once, by the frame its outcome calls for;
\* CONTINUE is sent and the stream registered only when the dial has succeeded,
\* and nothing is dialled for a payload that does not parse or that policy refuses.
ConnectAnsweredOnce ==
  \A c \in Conns :
    LET C == conns[c] IN
    /\ Cardinality(Answers(c)) <= 1
    /\ \A i \in Answers(c) :
         ws_out[i] = IF ~parse_connect(C.kind) THEN make_close_packet(C.sid, "InvalidData", c)
                     ELSE IF ~validate_wisp_target(C.kind)
                            THEN make_close_packet(C.sid, "Forbidden", c)
                     ELSE IF C.dial = "ok" THEN make_continue_packet(C.sid, 128, c)
                     ELSE make_close_packet(C.sid, "ServerRefused", c)
    /\ \A s \in StreamIds : streams[s] = c => C.dial = "ok"
    /\ C.kind \in {"unparsable", "refused"} => C.dial = "none"

\* C13: the first frame a tunnel sends is CONTINUE(0, 128), and it is sent before
\* any frame of the client is processed.
HandshakeFirst ==
  wisp.nin > 0 \/ ws_out # <<>> =>
    /\ ws_out # <<>>
    /\ ws_out[1] = make_continue_packet(0, 128, 0)

\* The CLOSE frames the relay of connection c has sent for the end of its reads.
RelayCloses(c) ==
  {i \in 1 .. Len(ws_out) :
     /\ ws_out[i].conn = c
     /\ ws_out[i].type = "CLOSE"
     /\ ws_out[i].arg \in {"Voluntary", "NetworkError"}}

\* C14: when the read side of an open stream has ended and its relay has returned,
\* exactly one CLOSE was sent for the stream, with Voluntary after end-of-file and
\* NetworkError after a read error, and the map no longer holds the stream's entry.
ReadEndClosesStream ==
  \A c \in Conns :
    LET C == conns[c] IN
    wisp.pc = "open" /\ ~C.closed /\ C.ended # "none" /\ C.r = "done" /\ C.h = "done" =>
      /\ Cardinality(RelayCloses(c)) = 1
      /\ \A i \in RelayCloses(c) :
           ws_out[i] = make_close_packet(C.sid, IF C.ended = "eof" THEN "Voluntary"
                                                ELSE "NetworkError", c)
      /\ streams[C.sid] # c

Terminal == {"Completed", "Failed"}

\* Subscriber k will be handed no further snapshot: its receiver has lagged, or
\* it has read everything and the task has ended with nobody left to emit.
NoMoreEvents(k) ==
  \/ sub[k].lagged
  \/ /\ sub[k].q = <<>>
     /\ tasks[sub[k].id] # NoTask
     /\ tasks[sub[k].id].status \in Terminal
     /\ WorkersIdle
     /\ pz.pc = "idle"

\* C15: a subscriber that stays connected has been handed a snapshot with a
\* terminal status by the time no further snapshot can reach it.
TerminalSnapshotArrives ==
  \A k \in Subs :
    sub[k].pc = "stream" /\ sub[k].initial = NoTask /\ NoMoreEvents(k) =>
      sub[k].seen \in Terminal

\* C16: the snapshots handed to a subscriber follow the order of the mutations of
\* the record they were taken from.
SnapshotsInMutationOrder ==
  [][\A k \in Subs :
       sub[k].pc = "stream" /\ sub'[k].pc = "stream" => sub'[k].last >= sub[k].last]_vars

\* C17: while a task's record exists the channel of its id is never replaced, and
\* the subscribers of one id all hold the channel the map holds for it.
OneChannelPerTask ==
  [][\A id \in Ids :
       /\ progress_tx[id] # 0 /\ tasks'[id] # NoTask => progress_tx'[id] = progress_tx[id]
       /\ \A k \in Subs :
            sub'[k].pc = "stream" /\ sub'[k].id = id => sub'[k].chan = progress_tx'[id]]_vars

\* C18: when a step of the archive rewrite has failed and inject has returned the
\* error, <ipa>.tmp does not exist and the IPA is what it was.
FailedRewriteLeavesNoTemp ==
  zip.pc = "done" /\ zip.result = "Err" /\ zip.plan # <<>> =>
    /\ ~zip.tmp.exists
    /\ zip.ipa = zip.orig

\* The paths of the plan the rewrite was given.
PlanPaths == {zip.plan[j].path : j \in DOMAIN zip.plan}
NotPlanned(e) == e.name \notin PlanPaths

\* C19: after a successful rewrite with a non-empty plan the IPA holds the input
\* entries whose path the plan does not write, in input order and unchanged,
\* followed by the plan's entries in plan order, stored uncompressed.
RewrittenArchive ==
  zip.pc = "done" /\ zip.result = "Ok" /\ zip.plan # <<>> =>
    zip.ipa = SelectSeq(zip.orig, NotPlanned)
              \o [j \in DOMAIN zip.plan |->
                    Entry(zip.plan[j].path, zip.plan[j].data, "Stored")]

\* A rewrite has succeeded that replaced an entry of the input and kept another.
ReplacedAnEntry ==
  /\ zip.pc = "done" /\ zip.result = "Ok" /\ Len(zip.plan) > 1
  /\ \E i \in DOMAIN zip.orig : ~NotPlanned(zip.orig[i])
  /\ \E i \in DOMAIN zip.orig : NotPlanned(zip.orig[i])

\* The bodies of the entries of the opened archive at path p (at most one).
BodiesAt(p) == {zip.entries[i].body : i \in {j \in DOMAIN zip.entries : zip.entries[j].name = p}}

\* The source the plists of the discovered bundle call for.
SourceOfBundle ==
  LET ms == {b \in BodiesAt(ManifestPath(zip.bundle)) : get_string_array(b)}
      is == {b \in BodiesAt(InfoPath(zip.bundle)) : get_string(b)}
  IN IF ms # {} THEN ManifestSource((CHOOSE b \in ms : TRUE).paths)
     ELSE IF is # {} THEN InfoSource((CHOOSE b \in is : TRUE).exec)
     ELSE NoSource

\* C20: the injection source is the SinfPaths of the bundle's Manifest.plist when
\* that entry is usable, otherwise the CFBundleExecutable of the bundle's
\* Info.plist; with neither, the injection fails and the IPA is not modified.
SourceIsOfTheBundle ==
  zip.pc \in {"plan", "create", "copy", "write", "finish", "rename", "done"}
  /\ zip.bundle # "none" =>
    IF zip.source # NoSource
      THEN zip.source = SourceOfBundle
      ELSE zip.result = "Err" /\ zip.ipa = zip.orig

\* ------------------------------------------------- tasks.json across restarts
\* AppState::persist_tasks step by step.  tokio::fs::write runs std::fs::write on a
\* blocking thread: the file is opened with truncation, the buffer is written from
\* offset zero, and the caller goes on when the thread has finished.
MaxRestarts == 1

AtPersist(c) == IF c = 0 THEN dl.pc = "d5" ELSE workers[c].pc = "persist"

\* Lines 107-116: the array is serialised from the records under the read lock.
PersistRead(c) ==
  /\ AtPersist(c)
  /\ pw[c].pc = "idle"
  /\ pw' = [pw EXCEPT ![c] = [pc |-> "open", data |-> to_string_pretty(persist_tasks(tasks))]]
  /\ UNCHANGED <<taskVars, wispVars, zipVars, boot, sweep, config>>

\* Line 117, File::create: tasks.json is truncated.
PersistOpen(c) ==
  /\ pw[c].pc = "open"
  /\ tasksJson' = <<>>
  /\ pw' = [pw EXCEPT ![c].pc = "write"]
  /\ UNCHANGED <<tasks, abort_handles, progress_tx, workers, nspawned, ncreated, wispVars, zipVars,
                 files, dirs, pz, rs, dl, sub, resp, hist, boot, sweep, config>>

\* write_all through a descriptor at offset zero: the bytes beyond the buffer stay.
Overwrite(old, data) == data \o SubSeq(old, Len(data) + 1, Len(old))

\* Line 117, write_all: the buffer is written.
PersistWrite(c) ==
  /\ pw[c].pc = "write"
  /\ tasksJson' = Overwrite(tasksJson, pw[c].data)
  /\ pw' = [pw EXCEPT ![c] = [pc |-> "done", data |-> <<>>]]
  /\ UNCHANGED <<tasks, abort_handles, progress_tx, workers, nspawned, ncreated, wispVars, zipVars,
                 files, dirs, pz, rs, dl, sub, resp, hist, boot, sweep, config>>

\* start_download, line 343: persist_tasks returned; the worker returns.
PersistReturn(w) ==
  /\ workers[w].pc = "persist"
  /\ pw[w].pc = "done"
  /\ pw' = [pw EXCEPT ![w] = IdleWrite]
  /\ SetW(w, Done(workers[w]))
  /\ UNCHANGED <<tasks, abort_handles, progress_tx, nspawned, ncreated, wispVars, zipVars, files,
                 dirs, tasksJson, pz, rs, dl, sub, resp, hist, boot, sweep, config>>

\* delete_task, line 116: persist_tasks returned; delete_download answers.
DeleteReturn(log) ==
  /\ dl.pc = "d5"
  /\ pw[0].pc = "done"
  /\ pw' = [pw EXCEPT ![0] = IdleWrite]
  /\ Respond(log, Reply("delete", dl.id, OwnerHash, 200, {}))
  /\ dl' = IdleDelete
  /\ UNCHANGED <<tasks, abort_handles, progress_tx, workers, nspawned, ncreated, wispVars, zipVars,
                 files, dirs, tasksJson, pz, rs, sub, hist, boot, sweep, config>>

\* The process stops at any point and is started again: AppState::new, lines 18-33,
\* on what the data directory holds by then.
Restart ==
  LET parsed == from_str(tasksJson)
      ts == load_tasks(IF parsed.ok THEN parsed.items ELSE {}, files)
  IN
  /\ boot.n < MaxRestarts
  /\ boot' = [boot EXCEPT !.n = @ + 1]
  /\ tasks' = ts
  /\ files' = clean_orphaned_packages(ts, files, boot.outside)
  /\ dirs' = [id \in Ids |-> clean_orphaned_packages(ts, files, boot.outside)[id] # NoFile]
  /\ abort_handles' = [id \in Ids |-> 0]
  /\ progress_tx' = [id \in Ids |-> 0]
  /\ workers' = [w \in Workers |-> IdleWorker]
  /\ pz' = IdlePause
  /\ rs' = IdleResume
  /\ dl' = IdleDelete
  /\ sub' = [k \in Subs |-> IdleSub]
  /\ resp' = NoResp
  /\ hist' = [id \in Ids |-> [NoHist EXCEPT !.counted = hist[id].counted]]
  /\ pw' = [c \in Callers |-> IdleWrite]
  /\ UNCHANGED <<nspawned, ncreated, tasksJson, wispVars, zipVars, sweep, config>>

\* A data directory that is empty, or was left by a run that completed task 0, in
\* this packages root or in the one of an earlier data directory.
InitDisk ==
  /\ \/ Startup({}, FALSE, FALSE)
     \/ \E fp \in {build_ipa_path(0), OutsidePath} :
          Startup({DiskItem("completed", fp, NoSecrets)}, TRUE, FALSE)
  /\ NoTunnel("standalone", "none")
  /\ NoInjection
  /\ NoSweep /\ NoConfig

\* One download, delete requests, every step of persist_tasks, and restarts.
NextDisk ==
  \/ CreateDownload(1, TRUE)
  \/ \E w \in Workers :
       \/ Register(w) \/ SetDownloading(w) \/ Snapshot(w) \/ MakeDir(w) \/ StorePath(w)
       \/ HttpRequest(w, DeclaredLengths) \/ IsAborted(w) \/ CreateFile(w) \/ TakeChunk(w)
       \/ StreamError(w) \/ StreamEnd(w) \/ Aborted(w) \/ Flush(w) \/ RemoveHandle(w)
       \/ SetInjecting(w) \/ Inject(w) \/ SetCompleted(w) \/ FailRemoveHandle(w)
       \/ FailTask(w) \/ PersistReturn(w)
  \/ \E id \in Ids, h \in Hashes : DeleteCheck(id, h, FALSE, TRUE)
  \/ DeleteTask1
  \/ DeleteTask2
  \/ DeleteTask3
  \/ DeleteTask4
  \/ DeleteReturn(TRUE)
  \/ \E c \in Callers : PersistRead(c) \/ PersistOpen(c) \/ PersistWrite(c)
  \/ Restart

SpecDisk == InitDisk /\ [][NextDisk]_vars

\* C21: whenever the engine writes tasks.json, every record in the file is
\* Completed, names a file path inside the packages root, and holds no download
\* URL, no sinfs and no iTunes metadata.
EngineWritesPackagesOnly ==
  [][tasksJson' # tasksJson =>
       \A r \in ItemsOf(tasksJson') :
         /\ r.status = "completed"
         /\ r.file_path # "None"
         /\ path_within_base(r.file_path)
         /\ ~HasSecrets(r)]_vars

\* C22: at every moment tasks.json holds one whole array.
TasksJsonIsWhole == from_str(tasksJson).ok

\* The records of tasks.json that name task id, are Completed and whose file exists.
Loadable(id) ==
  {r \in ItemsOf(tasksJson) :
     r.id = id /\ r.status = "completed" /\ r.file_path # "None" /\ files[id] # NoFile}

Root == "."
Parent(p) ==
  CASE p = "a" -> Root
    [] p = "a/b" -> "a"
    [] p = "a/f" -> "a"
    [] p = "a/b/g" -> "a/b"
    [] p = "h" -> Root
    [] p = "l" -> Root
    [] p = "l/k" -> "l"
    [] OTHER -> ""
Entries == {"a", "a/b", "a/f", "a/b/g", "h", "l", "l/k"}
Links == {"l"}

\* Path::is_dir and Path::is_file, which follow symbolic links.
is_dir(p) == p \in {Root, "a", "a/b", "l"}
is_file(p) == p \in {"a/f", "a/b/g", "h", "l/k"}

\* std::fs::canonicalize, and whether the result lies outside the packages root.
canonicalize(p) == IF p = "l/k" THEN OutsidePath ELSE p
Outside(p) == p \in {"l", "l/k"}

\* The trees: every entry lies in a directory that exists.
Trees ==
  {{}} \cup {t \cup {Root} : t \in {u \in SUBSET Entries : \A p \in u : Parent(p) \in u \cup {Root}}}

\* std::fs::read_dir
read_dir(tree, d) == {p \in tree : Parent(p) = d}

\* Lines 89-101: the canonical file paths of the loaded tasks; load_tasks keeps a
\* task only when its file exists.
KnownSets(tree) == SUBSET {canonicalize(p) : p \in {q \in tree : is_file(q)}}

\* Line 164 (NoOrphans: a sweep that takes every file for a known one).
NoOrphans(canonical, known) == FALSE

is_orphan(canonical, known) == canonical \notin known

\* clean_orphaned_packages, lines 84-103: nothing is done without the root.
SweepStart ==
  /\ sweep.pc = "start"
  /\ sweep' = IF Root \in sweep.tree
                THEN [sweep EXCEPT !.pc = "walk",
                                   !.stack = <<[dir |-> Root, todo |-> read_dir(sweep.tree, Root)]>>]
                ELSE [sweep EXCEPT !.pc = "done"]
  /\ UNCHANGED <<taskVars, wispVars, zipVars, pw, boot, config>>

Top == sweep.stack[Len(sweep.stack)]
Pop(stack) == SubSeq(stack, 1, Len(stack) - 1)
Took(e) == [sweep.stack EXCEPT ![Len(sweep.stack)].todo = @ \ {e}]

\* walk_and_clean, lines 153-154: the entry is a directory; the walk descends.
WalkDir(e) ==
  /\ sweep.pc = "walk"
  /\ e \in Top.todo
  /\ is_dir(e)
  /\ sweep' = [sweep EXCEPT
                 !.stack = Append(Took(e), [dir |-> e, todo |-> read_dir(sweep.tree, e)])]
  /\ UNCHANGED <<taskVars, wispVars, zipVars, pw, boot, config>>

\* walk_and_clean, lines 159-167: the entry is a file; it is removed unless its
\* canonical path is a known one.
WalkFile(e) ==
  /\ sweep.pc = "walk"
  /\ e \in Top.todo
  /\ is_file(e)
  /\ sweep' = [sweep EXCEPT
                 !.stack = Took(e),
                 !.tree = IF is_orphan(canonicalize(e), sweep.known) THEN @ \ {e} ELSE @]
  /\ UNCHANGED <<taskVars, wispVars, zipVars, pw, boot, config>>

\* walk_and_clean, lines 155-158 and 168: the entries of a directory are done; the
\* caller removes the directory when it is empty (remove_dir fails on a link).
WalkReturn ==
  /\ sweep.pc = "walk"
  /\ Top.todo = {}
  /\ sweep' = IF Len(sweep.stack) = 1
                THEN [sweep EXCEPT !.pc = "done", !.stack = <<>>]
                ELSE [sweep EXCEPT
                        !.stack = Pop(@),
                        !.tree = IF read_dir(sweep.tree, Top.dir) = {} /\ Top.dir \notin Links
                                   THEN @ \ {Top.dir} ELSE @]
  /\ UNCHANGED <<taskVars, wispVars, zipVars, pw, boot, config>>

\* AppState::new reaches clean_orphaned_packages on some tree, with the tasks it
\* loaded referring to some of the files.
InitSweep ==
  /\ Startup({}, FALSE, FALSE)
  /\ NoTunnel("standalone", "none")
  /\ NoInjection
  /\ NoConfig
  /\ \E t \in Trees : \E k \in KnownSets(t) :
       sweep = [pc |-> "start", orig |-> t, tree |-> t, known |-> k, stack |-> <<>>]

NextSweep ==
  \/ SweepStart
  \/ \E e \in Entries : WalkDir(e)
  \/ \E e \in Entries : WalkFile(e)
  \/ WalkReturn

SpecSweep == InitSweep /\ [][NextSweep]_vars

\* The files and the directories of a tree that lie in the packages root.
FilesIn(tree) == {p \in tree : is_file(p) /\ ~Outside(p)}
DirsIn(tree) == {p \in tree : is_dir(p) /\ ~Outside(p) /\ p # Root}

\* C24: when the sweep is over, the packages root holds exactly the files the
\* loaded tasks refer to, no directory below the root is empty, and the root is
\* still there.
SweepLeavesKnownFiles ==
  sweep.pc = "done" /\ Root \in sweep.orig =>
    /\ FilesIn(sweep.tree) = {p \in FilesIn(sweep.orig) : canonicalize(p) \in sweep.known}
    /\ \A d \in DirsIn(sweep.tree) : read_dir(sweep.tree, d) # {}
    /\ Root \in sweep.tree

\* C24, witness: the sweep removed an orphan two levels down and the directory it
\* left empty, and kept a known file beside it.
SweptNestedOrphan ==
  /\ sweep.pc = "done"
  /\ {"a/b", "a/b/g", "a/f"} \subseteq sweep.orig
  /\ "a/f" \in sweep.tree
  /\ "a" \in sweep.tree
  /\ "a/b" \notin sweep.tree

\* C25: the sweep removes nothing whose resolved location is outside the packages
\* root, and walks no directory outside it.
SweepStaysInRoot ==
  /\ \A p \in sweep.orig : Outside(p) => p \in sweep.tree
  /\ \A i \in DOMAIN sweep.stack : ~Outside(sweep.stack[i].dir)

\* ------------------------------------------------------- install endpoints
\* install.rs manifest and install_url, lines 60-69 and 93-102: the answer is
\* built when a Completed task with a file path has the id, else 404.
InstallPackage(id) ==
  tasks[id] # NoTask /\ tasks[id].status = "Completed" /\ tasks[id].file_path # "None"

Manifest(id, log) ==
  /\ Respond(log, Reply("manifest", id, "", IF InstallPackage(id) THEN 200 ELSE 404, {}))
  /\ UNCHANGED <<tasks, abort_handles, progress_tx, workers, nspawned, ncreated, wispVars, zipVars, diskVars,
                 files, dirs, tasksJson, pz, rs, dl, sub, hist>>

InstallUrl(id, log) ==
  /\ Respond(log, Reply("url", id, "", IF InstallPackage(id) THEN 200 ELSE 404, {}))
  /\ UNCHANGED <<tasks, abort_handles, progress_tx, workers, nspawned, ncreated, wispVars, zipVars, diskVars,
                 files, dirs, tasksJson, pz, rs, dl, sub, hist>>

\* install.rs payload, lines 121-167: 404 unless a Completed task has the id, a
\* file path and the file; 403 for a file outside the packages root; else the file.
PayloadStatus(id) ==
  IF ~(tasks[id] # NoTask /\ tasks[id].status = "Completed") THEN 404
  ELSE IF tasks[id].file_path = "None" \/ files[id] = NoFile THEN 404
  ELSE IF ~path_within_base(tasks[id].file_path) THEN 403
  ELSE 200

Payload(id, log) ==
  /\ Respond(log, Reply("payload", id, "", PayloadStatus(id), {}))
  /\ UNCHANGED <<tasks, abort_handles, progress_tx, workers, nspawned, ncreated, wispVars, zipVars, diskVars,
                 files, dirs, tasksJson, pz, rs, dl, sub, hist>>

\* One download and the requests on packages: install, file and delete.
NextInstall ==
  \/ CreateDownload(1, TRUE)
  \/ \E w \in Workers : Unaborted(w)
  \/ \E id \in Ids : Manifest(id, TRUE)
  \/ \E id \in Ids : InstallUrl(id, TRUE)
  \/ \E id \in Ids : Payload(id, TRUE)
  \/ \E id \in Ids, h \in Hashes : DownloadFile(id, h, TRUE)
  \/ \E id \in Ids, h \in Hashes : DeletePackage(id, h, TRUE)

SpecInstall == InitDisk /\ [][NextInstall]_vars

\* The endpoints that serve a package, and a request for task id answered st.
Serving == {"manifest", "url", "payload", "file"}
Answered(kinds, st) == resp' # resp /\ resp'.kind \in kinds /\ resp'.status = st

\* Task id is Completed and its staged file exists.
HasStagedFile(id) ==
  tasks[id] # NoTask /\ tasks[id].status = "Completed" /\ file_exists(tasks[id])

\* C26: an install or file endpoint answers 200 only for a Completed task whose
\* staged file exists when the request is served; an install endpoint asked for
\* any other task answers 404.
PackagesNeedTheirFile ==
  [][/\ Answered(Serving, 200) => HasStagedFile(resp'.id)
     /\ resp' # resp /\ resp'.kind \in Serving \ {"file"} /\ ~HasStagedFile(resp'.id)
          => resp'.status = 404]_vars

\* C27: after DELETE /api/packages/:id answered 200 the task record is gone, its
\* staged file is gone and tasks.json does not list the task, as after
\* DELETE /api/downloads/:id.
DeletePackageDeletesTask ==
  [][Answered({"package"}, 200) =>
       /\ tasks'[resp'.id] = NoTask
       /\ abort_handles'[resp'.id] = 0
       /\ removable(tasks[resp'.id].file_path, resp'.id) => files'[resp'.id] = NoFile
       /\ \A r \in ItemsOf(tasksJson') : r.id # resp'.id]_vars

\* No worker was spawned for task id since the server started.
NoWorkerOf(id) == \A w \in Workers : workers[w].pc = "idle" \/ workers[w].id # id

NextStream ==
  \/ CreateDownload(1, FALSE)
  \/ \E w \in Workers :
       \/ Register(w) \/ SetDownloading(w) \/ Snapshot(w) \/ MakeDir(w) \/ StorePath(w)
       \/ HttpRequest(w, Responses) \/ IsAborted(w) \/ CreateFile(w) \/ TakeChunk(w)
       \/ StreamError(w) \/ StreamEnd(w) \/ Flush(w) \/ RemoveHandle(w)
       \/ SetInjecting(w) \/ Inject(w) \/ SetCompleted(w) \/ Persist(w)
       \/ FailRemoveHandle(w) \/ FailTask(w)

SpecStream == InitApi /\ [][NextStream]_vars

\* The response of worker w declares its length, and the length is below the cap.
WellDeclared(w) ==
  /\ workers[w].len > 0
  /\ workers[w].clen = workers[w].len
  /\ workers[w].len < MAX_DOWNLOAD_SIZE

\* The worker is between the creation of the staged file and the Completed update.
Streaming(pc) == pc \in {"loop", "flush", "rmHandle", "setInj", "inject", "setDone"}

StopsAtNextChunk ==
  [][\A w \in Workers :
       workers[w].pc = "loop" /\ workers[w].changed =>
         ~(workers'[w].pc = "loop" /\ workers'[w].got > workers[w].got)]_vars

\* ------------------------------------------------------------ configuration
\* asspp_core/src/config.rs.  A string is the sequence of its characters; an
\* environment variable is unset, or set to a string.
Unset == [set |-> FALSE, v |-> <<>>]
SetTo(v) == [set |-> TRUE, v |-> v]

Digits == <<"0", "1", "2", "3", "4", "5", "6", "7", "8", "9">>
IsDigit(ch) == \E d \in 1 .. 10 : Digits[d] = ch
DigitValue(ch) == (CHOOSE d \in 1 .. 10 : Digits[d] = ch) - 1

\* str::parse::<u16> (line 14): an optional "+", then one digit or more, the
\* value at most 65535; -1 stands for Err.
RECURSIVE ParseDigits(_, _)
ParseDigits(v, acc) ==
  IF v = <<>> THEN acc
  ELSE IF ~IsDigit(Head(v)) THEN -1
  ELSE LET n == 10 * acc + DigitValue(Head(v))
       IN IF n > 65535 THEN -1 ELSE ParseDigits(Tail(v), n)

parse_u16(v) ==
  LET d == IF v # <<>> /\ Head(v) = "+" THEN Tail(v) ELSE v
  IN IF d = <<>> THEN -1 ELSE ParseDigits(d, 0)

\* Config::from_env, lines 10-19.
from_env(env) ==
  [port |-> IF env.PORT.set /\ parse_u16(env.PORT.v) >= 0 THEN parse_u16(env.PORT.v) ELSE 8080,
   data_dir |-> IF env.DATA_DIR.set THEN env.DATA_DIR.v ELSE <<".", "/", "d", "a", "t", "a">>,
   public_base_url |-> IF env.PUBLIC_BASE_URL.set THEN env.PUBLIC_BASE_URL.v ELSE <<>>]

\* Config::default, lines 30-38.
DefaultConfig ==
  [port |-> 8080, data_dir |-> <<".", "/", "d", "a", "t", "a">>, public_base_url |-> <<>>]

\* Config::packages_dir, lines 21-23.
\* (PackagesBesideData: the format string without its separator.)
PackagesBesideData(cfg) == cfg.data_dir \o <<"p", "a", "c", "k", "a", "g", "e", "s">>

packages_dir(cfg) == cfg.data_dir \o <<"/", "p", "a", "c", "k", "a", "g", "e", "s">>

\* Config::tasks_file, lines 25-27.
tasks_file(cfg) == cfg.data_dir \o <<"/", "t", "a", "s", "k", "s", ".", "j", "s", "o", "n">>

\* The values the environment may give the three variables.
Ports == {Unset, SetTo(<<"8", "0", "8", "0">>), SetTo(<<"4", "4", "3">>), SetTo(<<"+", "8", "0">>), SetTo(<<"6", "5", "5", "3", "6">>), SetTo(<<"h", "t", "t", "p">>), SetTo(<<>>)}
DataDirs == {Unset, SetTo(<<"/", "d", "a", "t", "a">>), SetTo(<<".", "/", "d", "a", "t", "a">>), SetTo(<<"/", "d", "/">>), SetTo(<<>>)}
BaseUrls == {Unset, SetTo(<<"x">>)}

NoCfg == [port |-> 0, data_dir |-> <<>>, public_base_url |-> <<>>]

\* main: the Config of the process is made from the environment.
FromEnv ==
  /\ config.pc = "env"
  /\ config' = [config EXCEPT !.pc = "made", !.by = "env", !.cfg = from_env(config.env)]
  /\ UNCHANGED <<taskVars, wispVars, zipVars, pw, boot, sweep>>

\* A Config is made by Config::default().
MakeDefault ==
  /\ config.pc = "env"
  /\ config' = [config EXCEPT !.pc = "made", !.by = "default", !.cfg = DefaultConfig]
  /\ UNCHANGED <<taskVars, wispVars, zipVars, pw, boot, sweep>>

\* packages_dir() and tasks_file() are called on the Config.
PackagesDir ==
  /\ config.pc = "made"
  /\ ~config.packages_dir.set
  /\ config' = [config EXCEPT !.packages_dir = SetTo(packages_dir(config.cfg))]
  /\ UNCHANGED <<taskVars, wispVars, zipVars, pw, boot, sweep>>

TasksFile ==
  /\ config.pc = "made"
  /\ ~config.tasks_file.set
  /\ config' = [config EXCEPT !.tasks_file = SetTo(tasks_file(config.cfg))]
  /\ UNCHANGED <<taskVars, wispVars, zipVars, pw, boot, sweep>>

InitConfig ==
  /\ Startup({}, FALSE, FALSE)
  /\ NoTunnel("standalone", "none")
  /\ NoInjection
  /\ NoSweep
  /\ \E p \in Ports, d \in DataDirs, u \in BaseUrls :
       config = [pc |-> "env", by |-> "none",
                 env |-> [PORT |-> p, DATA_DIR |-> d, PUBLIC_BASE_URL |-> u],
                 cfg |-> NoCfg, packages_dir |-> Unset, tasks_file |-> Unset]

NextConfig == FromEnv \/ MakeDefault \/ PackagesDir \/ TasksFile

SpecConfig == InitConfig /\ [][NextConfig]_vars

\* The directory part and the last component of a path that has a separator.
LastSlash(p) == CHOOSE i \in 1 .. Len(p) : p[i] = "/" /\ \A j \in i + 1 .. Len(p) : p[j] # "/"
Dirname(p) == SubSeq(p, 1, LastSlash(p) - 1)
Basename(p) == SubSeq(p, LastSlash(p) + 1, Len(p))

\* C35: whatever the data directory d of a Config, packages_dir() is the entry
\* "packages" of d and tasks_file() the entry "tasks.json" of d; a default Config,
\* and one made from an empty environment, has port 8080, data directory "./data"
\* and an empty public base URL.
ConfigPaths ==
  config.pc = "made" =>
    /\ config.packages_dir.set =>
          /\ Dirname(config.packages_dir.v) = config.cfg.data_dir
          /\ Basename(config.packages_dir.v) = <<"p", "a", "c", "k", "a", "g", "e", "s">>
    /\ config.tasks_file.set =>
          /\ Dirname(config.tasks_file.v) = config.cfg.data_dir
          /\ Basename(config.tasks_file.v) = <<"t", "a", "s", "k", "s", ".", "j", "s", "o", "n">>
    /\ config.by = "env" /\ config.env.DATA_DIR.set =>
          config.cfg.data_dir = config.env.DATA_DIR.v
    /\ \/ config.by = "default"
       \/ ~config.env.PORT.set /\ ~config.env.DATA_DIR.set /\ ~config.env.PUBLIC_BASE_URL.set
       => /\ config.cfg.port = 8080
          /\ config.cfg.data_dir = <<".", "/", "d", "a", "t", "a">>
          /\ config.cfg.public_base_url = <<>>

\* Both paths were asked of a Config whose data directory is "/data".
PathsUnderData ==
  /\ config.pc = "made"
  /\ config.by = "env"
  /\ config.cfg.data_dir = <<"/", "d", "a", "t", "a">>
  /\ config.packages_dir = SetTo(<<"/", "d", "a", "t", "a", "/", "p", "a", "c", "k", "a", "g", "e", "s">>)
  /\ config.tasks_file = SetTo(<<"/", "d", "a", "t", "a", "/", "t", "a", "s", "k", "s", ".", "j", "s", "o", "n">>)

\* ------------------------------------------------- progress of finished tasks
\* C36: a task whose status is Injecting or Completed has progress 100.
FinishedMeansHundred ==
  \A id \in Ids :
    tasks[id] # NoTask /\ tasks[id].status \in {"Injecting", "Completed"} =>
      tasks[id].progress = 100

\* ------------------------------------------------------ requests that overlap
\* One client sends a delete request for its task without waiting for the answer
\* to the pause or resume request it sent before (it resumes a task once the
\* worker it paused has returned).
NextRace ==
  \/ CreateDownload(MaxWorkers, TRUE)
  \/ \E id \in Ids : rs.pc = "idle" /\ PauseCheck(id, OwnerHash, FALSE, TRUE)
  \/ PauseTask1(TRUE)
  \/ PauseTask2
  \/ PauseTask3
  \/ PauseRespond(TRUE)
  \/ \E id \in Ids : pz.pc = "idle" /\ WorkersIdle /\ ResumeCheck(id, OwnerHash, FALSE, TRUE)
  \/ ResumeTask(MaxWorkers, TRUE)
  \/ ResumeRespond(TRUE)
  \/ \E id \in Ids : DeleteCheck(id, OwnerHash, FALSE, TRUE)
  \/ DeleteTask1
  \/ DeleteTask2
  \/ DeleteTask3
  \/ DeleteTask4
  \/ DeleteTask5(TRUE)
  \/ \E w \in Workers : WorkerStep(w, {Upstream(MaxChunks, MaxChunks)})

SpecRace == InitApi /\ [][NextRace]_vars

\* C37: the pause and resume handlers answer every request: after pause_task or
\* resume_task returned true, the record is there for the response.
HandlersAlwaysAnswer ==
  resp.kind \in {"pause", "resume"} => resp.status # 0

\* ------------------------------------------------------------ abort handles
\* C38: an entry of abort_handles is the handle of a worker that is running for
\* the id, so there is none when no worker runs for it.
HandlesOfRunningWorkers ==
  \A id \in Ids :
    abort_handles[id] # 0 =>
      Active(abort_handles[id]) /\ workers[abort_handles[id]].id = id

\* ------------------------------------------------------ flows of one stream id
\* C39: the stream-map entry of a flow goes away only through a client frame
\* (a CLOSE or a later CONNECT for the id), the close of the WebSocket, or the end
\* of that flow itself; the end of an earlier flow on the id leaves it alone.
EntryOfLatestConnect ==
  [][\A s \in StreamIds :
       LET c == streams[s] IN
       c # 0 /\ streams'[s] # c =>
         \/ wisp'.nin > wisp.nin
         \/ wisp'.pc = "closed"
         \/ conns'[c].h # conns[c].h]_vars

\* ------------------------------------------------------ frames that are dropped
\* asspp_core::wisp::parse_packet: one byte of packet type, the stream id in four
\* bytes, little-endian first; fewer than five bytes or an unknown type give None.
NoPacket == [ptype |-> "None", stream_id |-> 0]
u32_le(b) == b[1] + 256 * b[2] + 65536 * b[3] + 16777216 * b[4]
WispPacketType(t) ==
  IF t = 1 THEN "Connect" ELSE IF t = 2 THEN "Data" ELSE IF t = 3 THEN "Continue"
  ELSE IF t = 4 THEN "Close" ELSE "None"
parse_packet(data) ==
  IF Len(data) < 5 \/ WispPacketType(data[1]) = "None" THEN NoPacket
  ELSE [ptype |-> WispPacketType(data[1]), stream_id |-> u32_le(SubSeq(data, 2, 5))]

\* The messages a client sends: the header of a frame, whole or cut short, with
\* a packet type that is known or not; CONNECT frames carry one of the payloads.
\* Text and ping messages are not binary.
PacketTypes == 0 .. 5
Headers == { <<t, s, 0, 0, 0>> : t \in PacketTypes, s \in StreamIds }
CutShort == { SubSeq(h, 1, n) : h \in Headers, n \in {0, 4} }
Message(kind, data, payload) == [kind |-> kind, data |-> data, payload |-> payload]
Messages ==
  { Message("text", <<>>, "none"), Message("ping", <<>>, "none") }
  \cup { Message("binary", d, "none") : d \in CutShort \cup { h \in Headers : h[1] # 1 } }
  \cup { Message("binary", h, k) : h \in { g \in Headers : g[1] = 1 }, k \in ConnectKinds }

\* standalone, handle_wisp lines 39-106, and worker, websocket_message lines
\* 53-87: a message is taken from the WebSocket and handled by its packet type.
WsMessage(m) ==
  LET p == parse_packet(m.data) IN
  \/ /\ m.kind # "binary"
     /\ RecvOther
  \/ /\ m.kind = "binary" /\ p = NoPacket
     /\ RecvOther
  \/ /\ m.kind = "binary" /\ p.ptype = "Connect"
     /\ RecvConnect(p.stream_id, m.payload)
  \/ /\ m.kind = "binary" /\ p.ptype = "Data"
     /\ RecvData(p.stream_id)
  \/ /\ m.kind = "binary" /\ p.ptype = "Close"
     /\ RecvClose(p.stream_id)
  \/ /\ m.kind = "binary" /\ p.ptype = "Continue"
     /\ RecvOther

\* A tunnel of either server, fed with whole messages.
NextFrames ==
  \/ Accept
  \/ \E m \in Messages : WsMessage(m)
  \/ SendReady
  \/ WsClose
  \/ \E c \in Conns : TcpConnect(c)
  \/ \E c \in Conns : ReadTaskData(c)
  \/ \E c \in Conns, how \in ReadEnds : ReadTaskEnd(c, how)
  \/ \E c \in Conns : ReadTaskClose(c)
  \/ \E c \in Conns : WriteTaskData(c)
  \/ \E c \in Conns : WriteTaskEnd(c)
  \/ \E c \in Conns : TcpSelect(c)
  \/ \E c \in Conns : TcpRemove(c)
  \/ \E c \in Conns : RelayGetReader(c)
  \/ \E c \in Conns : RelayData(c)
  \/ \E c \in Conns, how \in ReadEnds : RelayEnd(c, how)

SpecFrames == InitWisp /\ [][NextFrames]_vars

\* The messages the session has to ignore: not binary, cut short, of an unknown
\* type, CONTINUE, or DATA or CLOSE for a stream id the map has no entry for.
Ignored(m) ==
  \/ m.kind # "binary"
  \/ Len(m.data) < 5
  \/ m.data[1] \notin {1, 2, 3, 4}
  \/ m.data[1] = 3
  \/ m.data[1] \in {2, 4} /\ streams[u32_le(SubSeq(m.data, 2, 5))] = 0

\* C32: handling a message the session has to ignore leaves the stream map as it
\* was, emits no frame and leaves the session open; the session ends only when
\* the WebSocket closes.
SilentDrop ==
  [][/\ wisp'.nin # wisp.nin =>
          \A m \in Messages :
            Ignored(m) /\ WsMessage(m) =>
              streams' = streams /\ ws_out' = ws_out /\ wisp'.pc = wisp.pc
     /\ wisp.pc = "open" /\ wisp'.pc # "open" => WsClose]_vars

\* Of two messages taken, one was a CONNECT whose dial is pending and the other
\* was ignored: the stream is registered, nothing is queued for it and only its
\* CONTINUE was emitted.
DroppedBesideOpenStream ==
  /\ server = "standalone"
  /\ wisp.pc = "open" /\ wisp.nin = 2 /\ wisp.nconn = 1
  /\ streams[1] = 1
  /\ conns[1].h = "dial" /\ conns[1].inq = 0
  /\ ws_out = <<make_continue_packet(1, 128, 1)>>

\* ------------------------------------------------------- the bytes of a stream
\* C33: a DATA frame emitted for a stream while the map holds an entry for the
\* stream carries bytes read from the TCP connection of that entry: it is built
\* by the read task of the flow the entry belongs to.
DataOfTheOpenFlow ==
  [][LET f == ws_out'[Len(ws_out')] IN
       /\ Len(ws_out') > Len(ws_out)
       /\ f.type = "DATA"
       /\ streams[f.sid] # 0
       => f.conn = streams[f.sid]]_vars

\* ------------------------------------------------------ the end of a session
\* The steps the server takes on its own: tokio runs every task that is ready,
\* and a dial ends (the operating system gives up after a while).  What a TCP
\* peer sends, and when, is not the server's: the reads of the relays are not
\* among these steps.
ServerStep(c) ==
  \/ TcpConnect(c) \/ ReadTaskClose(c) \/ WriteTaskData(c) \/ WriteTaskEnd(c)
  \/ TcpSelect(c) \/ TcpRemove(c) \/ RelayGetReader(c)

FairWisp ==
  /\ WF_vars(Accept)
  /\ WF_vars(SendReady)
  /\ \A c \in Conns : WF_vars(ServerStep(c))

SpecWispFair == InitWisp /\ [][NextWisp]_vars /\ FairWisp

\* No relay task of the session runs: none was spawned, or it has returned.
RelaysDone ==
  \A c \in Conns : conns[c].r \in {"none", "done"} /\ conns[c].w \in {"none", "done"}

\* C34: once the WebSocket has closed, the stream map is empty and every relay
\* task of the session comes to an end.
ClosedSessionWindsDown ==
  wisp.pc = "closed" ~> (\A s \in StreamSlots : streams[s] = 0) /\ RelaysDone

\* ---------------------------------------------------- a peer that stops reading
\* A tunnel of the standalone server with two stream ids, whose TCP peers may stop
\* accepting bytes.
InitBusy ==
  /\ Startup({}, FALSE, FALSE)
  /\ NoTunnel("standalone", "new")
  /\ NoInjection
  /\ NoSweep /\ NoConfig

NextBusy ==
  \/ Accept
  \/ \E sid \in StreamSlots : RecvConnect(sid, "public")
  \/ \E sid \in StreamSlots : RecvData(sid)
  \/ \E sid \in StreamSlots : RecvClose(sid)
  \/ RecvOther
  \/ SendReady
  \/ WsClose
  \/ \E c \in Conns : TcpConnect(c)
  \/ \E c \in Conns : ReadTaskData(c)
  \/ \E c \in Conns, how \in ReadEnds : ReadTaskEnd(c, how)
  \/ \E c \in Conns : ReadTaskClose(c)
  \/ \E c \in Conns : WriteTaskData(c)
  \/ \E c \in Conns : PeerStalls(c)
  \/ \E c \in Conns : WriteTaskEnd(c)
  \/ \E c \in Conns : TcpSelect(c)
  \/ \E c \in Conns : TcpRemove(c)

SpecBusy == InitBusy /\ [][NextBusy]_vars

\* C40: the session never waits for room in the full forward queue of a flow
\* whose peer has stopped accepting bytes; while it waits it takes no frame of any
\* stream, and no flow that ended can remove its entry from the map.
StalledFlowBlocksNobody ==
  \A c \in Conns :
    conns[c].w = "stuck" /\ conns[c].inq = QueueCap => wisp.wait # c
====
